---------------------------- MODULE Spec2Model ----------------------------
(***************************************************************************)
(* A model of pymusicxml (src/pymusicxml/music_xml_objects.py): the        *)
(* duration model, Measure.render (divisions, voice multiplexing with      *)
(* backup, displaced directions with backup/forward), the slur number      *)
(* remapping of Part._validate_slur_numbers, the setters of Chord, the     *)
(* beaming and tuplet brackets of BeamedGroup and Tuplet, the numbering of *)
(* parts and measures by Score.render, the type check of the containers,   *)
(* the order of Measure.iter_leaves and the note element of a leaf.        *)
(*                                                                         *)
(* Lengths are exact rationals <<numerator, denominator>>.  The source     *)
(* holds them in binary floating point and recovers the rational with      *)
(* Fraction(x).limit_denominator() and the tick count with int(round(x)):  *)
(* both are modelled by what they compute on the exact value.              *)
(***************************************************************************)
EXTENDS Integers, Sequences, FiniteSets, TLC

VARIABLES
    voices,      \* Measure.contents as a tuple of voices (Measure.voices)
    directions_with_displacements, \* Measure.directions_with_displacements
    barline,     \* Measure.barline is not None
    out,         \* children of the measure element returned by the last render
    renders,     \* number of Measure.render calls made so far
    inserts,     \* number of container insert calls made so far
    input_to_output_numbers, \* the dict of Part._validate_slur_numbers
    last_event,  \* the slur notation the walk handled last, as it will render
    quarter_length, \* the length in quarter notes a duration is asked for
    max_dots_allowed, \* the max_dots_allowed of that call
    returned,    \* what the call returned or raised
    group,       \* a BeamedGroup or Tuplet worked on by itself
    queried,     \* the last operation on the group and the value it returned
    chord,       \* a Chord: the Duration its notes share and its member notes
    last_set,    \* the attribute last set on the Chord and the value given
    score,       \* Score.contents: Parts and PartGroups, the Parts by reference
    part_objects, \* the Part objects of the score, by reference
    score_xml,   \* the score element the last Score.render returned
    container,   \* a container worked on by itself: its class and the classes of its contents
    last_call,   \* the last call made on the container, its objects and whether it raised
    asked_voices, \* the which_voices that Measure.iter_leaves is called with
    yielded,     \* the leaves that the call of Measure.iter_leaves yielded, in order
    note,        \* a Note or Rest rendered by itself
    note_xml     \* the note elements its render calls returned, in order

vars == <<voices, directions_with_displacements, barline, out, renders, inserts,
          input_to_output_numbers, last_event, quarter_length, max_dots_allowed, returned,
          group, queried, chord, last_set, score, part_objects, score_xml,
          container, last_call, asked_voices, yielded, note, note_xml>>

measureVars == <<voices, directions_with_displacements, barline, out, renders, inserts>>
slurVars == <<input_to_output_numbers, last_event>>
durationVars == <<quarter_length, max_dots_allowed, returned>>
groupVars == <<group, queried>>
chordVars == <<chord, last_set>>
scoreVars == <<score, part_objects, score_xml>>
containerVars == <<container, last_call>>
iterVars == <<asked_voices, yielded>>
noteVars == <<note, note_xml>>

\* the variables that the operations on a measure leave alone
notMeasureVars == <<slurVars, durationVars, groupVars, chordVars, scoreVars,
    containerVars, iterVars, noteVars>>
\* the variables that the walk over the slurs leaves alone
notSlurVars == <<measureVars, durationVars, groupVars, chordVars, scoreVars,
    containerVars, iterVars, noteVars>>
\* the variables that the construction of a duration leaves alone
notDurationVars == <<measureVars, slurVars, groupVars, chordVars, scoreVars,
    containerVars, iterVars, noteVars>>
\* the variables that the operations on a group leave alone
notGroupVars == <<measureVars, slurVars, durationVars, chordVars, scoreVars,
    containerVars, iterVars, noteVars>>
\* the variables that the setters of a chord leave alone
notChordVars == <<measureVars, slurVars, durationVars, groupVars, scoreVars,
    containerVars, iterVars, noteVars>>
\* the variables that the operations on a score leave alone
notScoreVars == <<measureVars, slurVars, durationVars, groupVars, chordVars,
    containerVars, iterVars, noteVars>>
\* the variables that the operations on a container by itself leave alone
notContainerVars == <<measureVars, slurVars, durationVars, groupVars, chordVars, scoreVars,
    iterVars, noteVars>>
\* the variables that a call of Measure.iter_leaves leaves alone
notIterVars == <<measureVars, slurVars, durationVars, groupVars, chordVars, scoreVars,
    containerVars, noteVars>>
\* the variables that the render of a note by itself leaves alone
notNoteVars == <<measureVars, slurVars, durationVars, groupVars, chordVars, scoreVars,
    containerVars, iterVars>>

-----------------------------------------------------------------------------
(* Bounds of the model *)

\* elements of the voices, displaced directions and barline a measure is given
MaxObjects == 3

\* Part objects a score holds at a time, inside and outside its part groups
MaxParts == 3

\* part groups a score holds at a time
MaxPartGroups == 1

\* objects a container worked on by itself holds at a time
MaxContainerLen == 3

\* measures the parts of a score hold at a time, all together
MaxMeasures == 2

\* calls of insert and render made on a measure
MaxOperations == 2

\* external slur ids that are not numbers of the pool
NumOtherIds == 1

\* the member notes of a chord that is worked on by itself
MaxChordNotes == 3

\* the leaves of a group that is worked on by itself
MaxGroupLeaves == 4

\* the largest max_dots_allowed a duration is asked for with
MaxDotsAsked == 5

MaxVoices == MaxObjects
MaxElements == MaxObjects
MaxDirections == MaxObjects - 1

-----------------------------------------------------------------------------
(* Exact rational arithmetic *)

RECURSIVE Gcd(_, _)
Gcd(a, b) == IF b = 0 THEN a ELSE Gcd(b, a % b)

Abs(x) == IF x < 0 THEN -x ELSE x

\* fractions.Fraction(n, d): lowest terms, positive denominator
Fraction(n, d) ==
    LET g == Gcd(Abs(n), Abs(d))
        s == IF d < 0 THEN -1 ELSE 1
    IN  <<(s * n) \div g, (s * d) \div g>>

RMul(x, y) == Fraction(x[1] * y[1], x[2] * y[2])
RAdd(x, y) == Fraction(x[1] * y[2] + y[1] * x[2], x[2] * y[2])
RSub(x, y) == Fraction(x[1] * y[2] - y[1] * x[2], x[2] * y[2])
RLess(x, y) == x[1] * y[2] < y[1] * x[2]
RLeq(x, y) == x[1] * y[2] <= y[1] * x[2]
RAbs(x) == <<Abs(x[1]), x[2]>>

\* the loop of Fraction.limit_denominator
RECURSIVE LimitLoop(_, _, _, _, _, _, _)
LimitLoop(p0, q0, p1, q1, n, d, max_denominator) ==
    LET a == n \div d
        q2 == q0 + a * q1
    IN  IF q2 > max_denominator
        THEN <<p0, q0, p1, q1>>
        ELSE LimitLoop(p1, q1, p0 + a * p1, q2, d, n - a * d, max_denominator)

\* Fraction.limit_denominator(max_denominator)
LimitDenominator(x, max_denominator) ==
    IF x[2] <= max_denominator
    THEN x
    ELSE LET c == LimitLoop(0, 1, 1, 0, x[1], x[2], max_denominator)
             k == (max_denominator - c[2]) \div c[4]
             bound1 == Fraction(c[1] + k * c[3], c[2] + k * c[4])
             bound2 == Fraction(c[3], c[4])
         IN  IF RLeq(RAbs(RSub(bound2, x)), RAbs(RSub(bound1, x)))
             THEN bound2
             ELSE bound1

\* the default max_denominator of Fraction.limit_denominator
DefaultMaxDenominator == 1000000

\* int(round(x)) of Python 3: to the nearest integer, a half to the even one
Round(x) ==
    LET q == x[1] \div x[2]
        r == x[1] % x[2]
    IN  IF 2 * r < x[2] THEN q
        ELSE IF 2 * r > x[2] THEN q + 1
        ELSE IF q % 2 = 0 THEN q ELSE q + 1

\* _utilities._least_common_multiple(*args)
RECURSIVE LeastCommonMultiple(_)
LeastCommonMultiple(args) ==
    IF Len(args) = 0 THEN 1
    ELSE IF Len(args) = 1 THEN args[1]
    ELSE IF Len(args) = 2 THEN (args[1] * args[2]) \div Gcd(args[1], args[2])
    ELSE LeastCommonMultiple(<<args[1], LeastCommonMultiple(Tail(args))>>)

-----------------------------------------------------------------------------
(* Duration *)

NoteTypes == <<"breve", "whole", "half", "quarter", "eighth", "16th", "32nd",
               "64th", "128th", "256th", "512th", "1024th">>

\* Duration._note_type_to_length
NoteTypeToLength ==
    "breve" :> <<8, 1>> @@ "whole" :> <<4, 1>> @@ "half" :> <<2, 1>> @@
    "quarter" :> <<1, 1>> @@ "eighth" :> <<1, 2>> @@ "16th" :> <<1, 4>> @@
    "32nd" :> <<1, 8>> @@ "64th" :> <<1, 16>> @@ "128th" :> <<1, 32>> @@
    "256th" :> <<1, 64>> @@ "512th" :> <<1, 128>> @@ "1024th" :> <<1, 256>>

RECURSIVE Pow2(_)
Pow2(n) == IF n = 0 THEN 1 ELSE 2 * Pow2(n - 1)

\* Duration._dot_multiplier
DotMultiplier(num_dots) == Fraction(Pow2(num_dots + 1) - 1, Pow2(num_dots))

\* tuplet_ratio None
NoRatio == <<0, 0>>

\* Duration.written_length, BarRestDuration.written_length
DurationWrittenLength(d) ==
    IF d.cls = "BarRestDuration" THEN d.length
    ELSE RMul(NoteTypeToLength[d.note_type], DotMultiplier(d.num_dots))

\* a faulty variant that C14 excludes: the tuplet ratio is applied upside down
DurationTrueLengthInverted(d) ==
    IF d.cls = "BarRestDuration" THEN d.length
    ELSE IF d.tuplet_ratio = NoRatio THEN DurationWrittenLength(d)
    ELSE RMul(DurationWrittenLength(d), Fraction(d.tuplet_ratio[1], d.tuplet_ratio[2]))

\* Duration.true_length, BarRestDuration.true_length
DurationTrueLength(d) ==
    IF d.cls = "BarRestDuration" THEN d.length
    ELSE IF d.tuplet_ratio = NoRatio THEN DurationWrittenLength(d)
    ELSE RMul(DurationWrittenLength(d), Fraction(d.tuplet_ratio[2], d.tuplet_ratio[1]))

\* Duration.length_in_divisions, BarRestDuration.length_in_divisions
DurationLengthInDivisions(d) == Round(RMul(DurationTrueLength(d), <<d.divisions, 1>>))

\* Duration.__init__
Duration(note_type, num_dots, tuplet_ratio) ==
    LET d0 == [cls |-> "Duration", note_type |-> note_type, num_dots |-> num_dots,
               tuplet_ratio |-> tuplet_ratio, length |-> <<0, 1>>, divisions |-> 0]
    IN  [d0 EXCEPT !.divisions =
            LimitDenominator(DurationTrueLength(d0), DefaultMaxDenominator)[2]]

\* BarRestDuration.__init__
BarRestDuration(length) ==
    [cls |-> "BarRestDuration", note_type |-> "whole", num_dots |-> 0,
     tuplet_ratio |-> NoRatio, length |-> length,
     divisions |-> LimitDenominator(length, DefaultMaxDenominator)[2]]

\* x / y for fractions, y not zero
RDiv(x, y) == Fraction(x[1] * y[2], x[2] * y[1])

\* length in Duration._length_to_note_type
InLengthToNoteType(x) == \E k \in 1..Len(NoteTypes) : NoteTypeToLength[NoteTypes[k]] = x

\* Duration._length_to_note_type[length]
LengthToNoteType(x) == NoteTypes[CHOOSE k \in 1..Len(NoteTypes) : NoteTypeToLength[NoteTypes[k]] = x]

\* the default of max_dots_allowed
DefaultMaxDotsAllowed == 4

\* what a call on a length gives back: a note type and a number of dots, or ValueError
Returns(call, note_type, num_dots) ==
    [call |-> call, raised |-> FALSE, note_type |-> note_type, num_dots |-> num_dots]

RaisesValueError(call) == [call |-> call, raised |-> TRUE, note_type |-> "none", num_dots |-> 0]

NotCalled == [call |-> "none", raised |-> FALSE, note_type |-> "none", num_dots |-> 0]

\* a faulty variant that C12 excludes: the loop steps over every second number of dots
NextDotsSkipping(dots) == dots + 2

\* dots += 1
NextDots(dots) == dots + 1

\* the while loop of Duration.get_note_type_and_number_of_dots
RECURSIVE DotsLoop(_, _, _, _)
DotsLoop(x, max_dots, dots, dots_multiplier) ==
    IF InLengthToNoteType(RDiv(x, dots_multiplier))
    THEN Returns("get_note_type_and_number_of_dots",
                 LengthToNoteType(RDiv(x, dots_multiplier)), dots)
    ELSE IF NextDots(dots) > max_dots
    THEN RaisesValueError("get_note_type_and_number_of_dots")
    ELSE DotsLoop(x, max_dots, NextDots(dots), DotMultiplier(NextDots(dots)))

\* Duration.get_note_type_and_number_of_dots
GetNoteTypeAndNumberOfDots(x, max_dots) ==
    IF InLengthToNoteType(x)
    THEN Returns("get_note_type_and_number_of_dots", LengthToNoteType(x), 0)
    ELSE DotsLoop(x, max_dots, 1, <<3, 2>>)

\* Duration.from_written_length: the Duration made, or the ValueError passed on
FromWrittenLength(written_length, tuplet_ratio, max_dots) ==
    LET r == GetNoteTypeAndNumberOfDots(written_length, max_dots)
    IN  IF r.raised
        THEN [raised |-> TRUE, duration |-> Duration("quarter", 0, NoRatio)]
        ELSE [raised |-> FALSE, duration |-> Duration(r.note_type, r.num_dots, tuplet_ratio)]

-----------------------------------------------------------------------------
(* Leaves: Note, GraceNote, Rest, BarRest, Chord *)

\* _XMLNote.__init__ (through Note, Rest, BarRest, GraceNote, Chord.__init__)
XMLNote(kind, duration, is_grace, members, ndirections) ==
    [kind |-> kind, duration |-> duration, is_grace |-> is_grace,
     tuplet_bracket |-> "None", voice |-> 0, members |-> members,
     ndirections |-> ndirections, beams |-> <<>>]

\* _XMLNote.written_length, Chord.written_length
WrittenLength(leaf) == DurationWrittenLength(leaf.duration)

\* Duration._note_type_to_num_beams
NoteTypeToNumBeams ==
    "breve" :> 0 @@ "whole" :> 0 @@ "half" :> 0 @@ "quarter" :> 0 @@ "eighth" :> 1 @@
    "16th" :> 2 @@ "32nd" :> 3 @@ "64th" :> 4 @@ "128th" :> 5 @@ "256th" :> 6 @@
    "512th" :> 7 @@ "1024th" :> 8

\* a faulty variant that C24 excludes: a rest takes the beams of its note value
NumBeamsOfNoteValue(leaf) == NoteTypeToNumBeams[leaf.duration.note_type]

\* _XMLNote.num_beams, Chord.num_beams: a rest has no beams
NumBeams(leaf) ==
    IF leaf.kind \in {"Rest", "BarRest"} THEN 0 ELSE NoteTypeToNumBeams[leaf.duration.note_type]

\* _XMLNote.true_length, Chord.true_length
TrueLength(leaf) ==
    IF leaf.is_grace THEN <<0, 1>> ELSE DurationTrueLength(leaf.duration)

\* _XMLNote.length_in_divisions, Chord.length_in_divisions
LengthInDivisions(leaf) ==
    IF leaf.is_grace THEN 0 ELSE DurationLengthInDivisions(leaf.duration)

\* a faulty variant that C4 excludes: a grace note counts with the denominator of its duration
MinDenominatorOfGraceToo(leaf) ==
    LimitDenominator(DurationTrueLength(leaf.duration), DefaultMaxDenominator)[2]

\* _XMLNote.min_denominator, Chord.min_denominator
MinDenominator(leaf) ==
    IF leaf.is_grace THEN 1
    ELSE LimitDenominator(DurationTrueLength(leaf.duration), DefaultMaxDenominator)[2]

\* Note.__init__, Rest.__init__ given a number of quarter notes for the duration
NoteOfLength(kind, duration) ==
    LET d == FromWrittenLength(duration, NoRatio, DefaultMaxDotsAllowed)
    IN  [raised |-> d.raised, leaf |-> XMLNote(kind, d.duration, FALSE, 1, 0)]

-----------------------------------------------------------------------------
(* Chord with its member notes: the notes share one Duration object *)

\* Chord.__init__: one Note per pitch, all given the same Duration; ties is one value or a
\* list; the voice 0 stands for None
ChordOfNotes(duration, ties) ==
    [duration |-> duration,
     notes |-> [m \in 1..Len(ties) |->
                  [ties |-> ties[m], voice |-> 0, beams |-> <<>>,
                   tuplet_bracket |-> "None", is_chord_member |-> m > 1]] \o <<>>]

\* Chord.divisions setter: every note sets the divisions of its duration, the shared one
ChordDivisionsSetter(c, value) == [c EXCEPT !.duration.divisions = value]

\* a faulty variant that C17 excludes: the voice is written to the first note only
ChordVoiceSetOnFirst(c, value) == [c EXCEPT !.notes[1].voice = value]

\* Chord.voice setter
ChordVoiceSetter(c, value) ==
    [c EXCEPT !.notes = [m \in 1..Len(c.notes) |-> [c.notes[m] EXCEPT !.voice = value]] \o <<>>]

\* Chord.beams setter
ChordBeamsSetter(c, value) == [c EXCEPT !.notes[1].beams = value]

\* Chord.ties setter given one value
ChordTiesSetter(c, value) ==
    [c EXCEPT !.notes = [m \in 1..Len(c.notes) |-> [c.notes[m] EXCEPT !.ties = value]] \o <<>>]

\* Chord.ties setter given a list or tuple
ChordTiesListSetter(c, value) ==
    [c EXCEPT !.notes = [m \in 1..Len(c.notes) |-> [c.notes[m] EXCEPT !.ties = value[m]]] \o <<>>]

\* Chord.tuplet_bracket setter
ChordTupletBracketSetter(c, value) == [c EXCEPT !.notes[1].tuplet_bracket = value]

-----------------------------------------------------------------------------
(* Groups: BeamedGroup, Tuplet; a lone leaf of a voice is an element of    *)
(* class "Leaf" holding that leaf                                          *)

SeqMap(Op(_), s) == [x \in 1..Len(s) |-> Op(s[x])] \o <<>>

RECURSIVE SeqSum(_)
SeqSum(s) == IF Len(s) = 0 THEN 0 ELSE s[1] + SeqSum(Tail(s))

LeafElement(leaf) == [cls |-> "Leaf", ratio |-> NoRatio, contents |-> <<leaf>>]

\* BeamedGroup.__init__
BeamedGroup(contents) == [cls |-> "BeamedGroup", ratio |-> NoRatio, contents |-> contents]

\* Tuplet._set_tuplet_info_for_contents
SetTupletInfoForContents(el, ratio) ==
    LET n == Len(el.contents)
        c1 == [el.contents EXCEPT ![1].tuplet_bracket = "start"]
        c2 == [c1 EXCEPT ![n].tuplet_bracket = IF n > 0 THEN "stop" ELSE "both"]
    IN  [el EXCEPT !.contents =
            [k \in 1..n |-> [c2[k] EXCEPT !.duration.tuplet_ratio = ratio]] \o <<>>]

\* Tuplet.__init__
Tuplet(contents, ratio) ==
    SetTupletInfoForContents(
        [cls |-> "Tuplet", ratio |-> ratio, contents |-> contents], ratio)

\* a faulty variant that C18 excludes: a leaf that only follows an active one begins a beam
BeamValueBeginAfter(last_note_active, next_note_active, hook) ==
    IF last_note_active /\ next_note_active THEN "continue"
    ELSE IF last_note_active THEN "begin"
    ELSE IF next_note_active THEN "end"
    ELSE hook

\* the value leaf.beams[beam_depth] is given for an active leaf
BeamValue(last_note_active, next_note_active, hook) ==
    IF last_note_active /\ next_note_active THEN "continue"
    ELSE IF last_note_active THEN "end"
    ELSE IF next_note_active THEN "begin"
    ELSE hook

\* a faulty variant that C19 excludes: a depth that is set already is removed, not overwritten
SetBeamUnlessSet(beams, beam_depth, value) ==
    IF beam_depth \in DOMAIN beams
    THEN [d \in DOMAIN beams \ {beam_depth} |-> beams[d]]
    ELSE [d \in DOMAIN beams \cup {beam_depth} |-> IF d = beam_depth THEN value ELSE beams[d]]

\* leaf.beams[beam_depth] = value
SetBeam(beams, beam_depth, value) ==
    [d \in DOMAIN beams \cup {beam_depth} |-> IF d = beam_depth THEN value ELSE beams[d]]

\* a faulty variant that C27 excludes: a leaf is active at the level of its last beam only
IsActiveAtLastBeam(leaf, beam_depth) == NumBeams(leaf) = beam_depth

\* leaf.num_beams() >= beam_depth
IsActive(leaf, beam_depth) == NumBeams(leaf) >= beam_depth

\* a faulty variant that C25 excludes: the start time is counted in eighths
HookPositionInEighths(leaf_start_time, num_beams) == Round(RDiv(leaf_start_time, <<1, 2>>))

\* int(round(leaf_start_time / 0.5 ** leaf.num_beams()))
HookPosition(leaf_start_time, num_beams) ==
    Round(RDiv(leaf_start_time, <<1, Pow2(num_beams)>>))

\* for i, leaf in enumerate(self.contents), at one beam_depth
RECURSIVE BeamLeaves(_, _, _, _)
BeamLeaves(contents, beam_depth, i, leaf_start_time) ==
    IF i > Len(contents) THEN contents
    ELSE LET leaf == contents[i]
             last_note_active == i > 1 /\ IsActive(contents[i - 1], beam_depth)
             this_note_active == IsActive(leaf, beam_depth)
             next_note_active == i < Len(contents) /\ IsActive(contents[i + 1], beam_depth)
             hook == IF HookPosition(leaf_start_time, NumBeams(leaf)) % 2 = 0
                     THEN "forward hook" ELSE "backward hook"
             beamed == IF this_note_active
                       THEN [contents EXCEPT ![i].beams =
                               SetBeam(@, beam_depth,
                                       BeamValue(last_note_active, next_note_active, hook))]
                       ELSE contents
         IN  BeamLeaves(beamed, beam_depth, i + 1, RAdd(leaf_start_time, WrittenLength(leaf)))

\* for beam_depth in range(1, max(leaf.num_beams() for leaf in self.contents) + 1)
RECURSIVE BeamDepths(_, _, _)
BeamDepths(contents, beam_depth, max_num_beams) ==
    IF beam_depth > max_num_beams THEN contents
    ELSE BeamDepths(BeamLeaves(contents, beam_depth, 1, <<0, 1>>), beam_depth + 1, max_num_beams)

\* "hook" in beam_value
IsHook(beam_value) == beam_value \in {"forward hook", "backward hook"}

\* a faulty variant that C26 excludes: the beam states are cleared when any of them is a hook
ClearAnyHook(leaf) ==
    IF \E d \in DOMAIN leaf.beams : IsHook(leaf.beams[d])
    THEN [leaf EXCEPT !.beams = <<>>] ELSE leaf

\* if all("hook" in beam_value for beam_value in leaf.beams.values()): leaf.beams = {}
ClearHooks(leaf) ==
    IF \A d \in DOMAIN leaf.beams : IsHook(leaf.beams[d])
    THEN [leaf EXCEPT !.beams = <<>>] ELSE leaf

\* BeamedGroup.render_contents_beaming
RenderContentsBeaming(el) ==
    LET max_num_beams ==
            CHOOSE m \in {NumBeams(el.contents[k]) : k \in 1..Len(el.contents)} :
                \A k \in 1..Len(el.contents) : NumBeams(el.contents[k]) <= m
        beamed == BeamDepths(el.contents, 1, max_num_beams)
    IN  [el EXCEPT !.contents = [k \in 1..Len(beamed) |-> ClearHooks(beamed[k])] \o <<>>]

\* sum(leaf.true_length for leaf in self.contents)
RECURSIVE RSum(_)
RSum(s) == IF Len(s) = 0 THEN <<0, 1>> ELSE RAdd(s[1], RSum(Tail(s)))

\* BeamedGroup.true_length; Tuplet does not override it
ElementTrueLength(el) == RSum(SeqMap(TrueLength, el.contents))

\* BeamedGroup.min_denominator
BeamedGroupMinDenominator(el) == LeastCommonMultiple(SeqMap(MinDenominator, el.contents))

\* Tuplet.min_denominator: the ratio is set on the contents first
TupletMinDenominator(el) ==
    LET stamped == SetTupletInfoForContents(el, el.ratio)
    IN  [element |-> stamped, value |-> BeamedGroupMinDenominator(stamped)]

\* BeamedGroup.length_in_divisions (a lone leaf: its own)
ElementLengthInDivisions(el) == SeqSum(SeqMap(LengthInDivisions, el.contents))

\* MusicXMLContainer.insert on a BeamedGroup or Tuplet
ContainerInsert(el, i, o) ==
    [el EXCEPT !.contents =
        SubSeq(el.contents, 1, i) \o <<o>> \o SubSeq(el.contents, i + 1, Len(el.contents))]

\* MusicXMLContainer.__delitem__ on a BeamedGroup or Tuplet, i counted from 0
ContainerDelItem(el, i) ==
    [el EXCEPT !.contents =
        SubSeq(el.contents, 1, i) \o SubSeq(el.contents, i + 2, Len(el.contents))]

-----------------------------------------------------------------------------
(* Measure.iter_leaves: leaves are yielded as references <<voice, element, *)
(* leaf>> into the measure                                                  *)

LeafAt(vs, ref) == vs[ref[1]].contents[ref[2]].contents[ref[3]]

RECURSIVE Concat(_)
Concat(ss) == IF Len(ss) = 0 THEN <<>> ELSE ss[1] \o Concat(Tail(ss))

RemoveAt(s, k) == SubSeq(s, 1, k - 1) \o SubSeq(s, k + 1, Len(s))

\* voice_list_copy: the selected populated voices, groups unravelled
VoiceListCopy(vs, which_voices) ==
    LET Unravelled(i) ==
            Concat([j \in 1..Len(vs[i].contents) |->
                       [k \in 1..Len(vs[i].contents[j].contents) |-> <<i, j, k>>]])
        Sel == {i \in 1..Len(vs) : i \in which_voices /\ ~vs[i].none}
        RECURSIVE Build(_)
        Build(i) == IF i > Len(vs) THEN <<>>
                    ELSE (IF i \in Sel THEN <<Unravelled(i)>> ELSE <<>>) \o Build(i + 1)
    IN  Build(1)

SortKeyBeatOnly(next_note_beat, true_length) == <<next_note_beat, <<0, 1>>>>

\* key=lambda k: (next_note_beats[k], voice_list_copy[k][0].true_length)
SortKey(next_note_beat, true_length) == <<next_note_beat, true_length>>

\* the while loop of Measure.iter_leaves
RECURSIVE IterLoop(_, _, _)
IterLoop(vs, voice_list_copy, next_note_beats) ==
    IF Len(voice_list_copy) = 0 THEN <<>>
    ELSE
        LET keys == [k \in 1..Len(voice_list_copy) |->
                        SortKey(next_note_beats[k],
                                TrueLength(LeafAt(vs, voice_list_copy[k][1])))] \o <<>>
            KeyLess(a, b) == RLess(a[1], b[1]) \/ (a[1] = b[1] /\ RLess(a[2], b[2]))
            \* min(range(len(next_note_beats)), key=...): the first minimal index
            voice_to_pop ==
                CHOOSE k \in 1..Len(keys) :
                    /\ \A m \in 1..Len(keys) : ~KeyLess(keys[m], keys[k])
                    /\ \A m \in 1..(k - 1) : KeyLess(keys[k], keys[m])
            popped_note == voice_list_copy[voice_to_pop][1]
            beats == [next_note_beats EXCEPT ![voice_to_pop] =
                         RAdd(@, TrueLength(LeafAt(vs, popped_note)))]
            copy == [voice_list_copy EXCEPT ![voice_to_pop] = Tail(@)]
        IN  <<popped_note>> \o
            (IF Len(copy[voice_to_pop]) = 0
             THEN IterLoop(vs, RemoveAt(copy, voice_to_pop), RemoveAt(beats, voice_to_pop))
             ELSE IterLoop(vs, copy, beats))

\* Measure.iter_leaves(which_voices)
IterLeaves(vs, which_voices) ==
    LET voice_list_copy == VoiceListCopy(vs, which_voices)
    IN  IterLoop(vs, voice_list_copy, [v \in 1..Len(voice_list_copy) |-> <<0, 1>>] \o <<>>)

\* Measure.leaves() with which_voices=None
Leaves(vs) == IterLeaves(vs, 1..Len(vs))

\* iter_leaves raises IndexError on voice_list_copy[k][0] of an empty list
IterLeavesRaises(vs) ==
    \E i \in 1..Len(vs) :
        /\ ~vs[i].none
        /\ \A j \in 1..Len(vs[i].contents) : Len(vs[i].contents[j].contents) = 0

-----------------------------------------------------------------------------
(* Measure.render *)

\* the ceiling of the divisions in Measure.render
DivisionsCeiling == 1024

\* the denominator bound of a direction's displacement
DisplacementMaxDenominator == 256

\* Measure._set_leaf_voices
SetLeafVoices(vs) ==
    [i \in 1..Len(vs) |->
        IF vs[i].none THEN vs[i]
        ELSE [vs[i] EXCEPT !.contents =
                [j \in 1..Len(vs[i].contents) |->
                    [vs[i].contents[j] EXCEPT !.contents =
                        [k \in 1..Len(vs[i].contents[j].contents) |->
                            [vs[i].contents[j].contents[k] EXCEPT !.voice = i]] \o <<>>]] \o <<>>]] \o <<>>

\* Measure._get_beat_division_for_directions (0 stands for None)
GetBeatDivisionForDirections(dwd) ==
    IF Len(dwd) = 0 THEN 0
    ELSE LeastCommonMultiple(
            [k \in 1..Len(dwd) |-> LimitDenominator(dwd[k], DisplacementMaxDenominator)[2]])

\* int(math.log2(x)) for a rational x > 0: log2 truncated toward zero
RECURSIVE FloorLog2(_, _)
FloorLog2(n, d) == IF 2 * d <= n THEN 1 + FloorLog2(n, 2 * d) ELSE 0

IntLog2(x) == IF x[1] >= x[2] THEN FloorLog2(x[1], x[2]) ELSE -FloorLog2(x[2], x[1])

\* a faulty variant that C5 excludes: the logarithm is rounded up, so the scaling passes the ceiling
CeilingScaleRoundedUp(num_beat_divisions) ==
    LET e == IntLog2(Fraction(DivisionsCeiling, num_beat_divisions))
    IN  IF e >= 0 THEN Pow2(e + 1) ELSE 1

\* max(1, 2 ** int(math.log2(1024 / num_beat_divisions)))
CeilingScale(num_beat_divisions) ==
    LET e == IntLog2(Fraction(DivisionsCeiling, num_beat_divisions))
    IN  IF e >= 0 THEN Pow2(e) ELSE 1

\* the leaf-based division of Measure.render: the LCM over self.leaves()
BaseBeatDivisions(vs, leaves) ==
    LeastCommonMultiple([k \in 1..Len(leaves) |-> MinDenominator(LeafAt(vs, leaves[k]))] \o <<>>)

\* num_beat_divisions of Measure.render
NumBeatDivisions(vs, leaves, dwd) ==
    LET num_beat_divisions == BaseBeatDivisions(vs, leaves)
        ideal_division ==
            LeastCommonMultiple(<<GetBeatDivisionForDirections(dwd), num_beat_divisions>>)
    IN  IF Len(dwd) > 0
        THEN IF ideal_division <= DivisionsCeiling
             THEN ideal_division
             ELSE num_beat_divisions * CeilingScale(num_beat_divisions)
        ELSE num_beat_divisions

\* for note in self.leaves(): note.divisions = num_beat_divisions
RECURSIVE SetDivisions(_, _, _)
SetDivisions(vs, refs, value) ==
    IF Len(refs) = 0 THEN vs
    ELSE LET r == refs[1]
         IN  SetDivisions(
                [vs EXCEPT ![r[1]].contents[r[2]].contents[r[3]].duration.divisions = value],
                Tail(refs), value)

\* a child of the measure element
Item(tag, voice, idx, leaf, member, dur, lid, grace) ==
    [tag |-> tag, voice |-> voice, idx |-> idx, leaf |-> leaf, member |-> member,
     dur |-> dur, lid |-> lid, grace |-> grace]

\* _XMLNote.render, Chord.render of one leaf: its directions, then its note elements;
\* lid is the leaf's length_in_divisions that Measure.render added to amount_to_backup
LeafRender(leaf, i, j, k, lid) ==
    [d \in 1..leaf.ndirections |-> Item("direction", i, j, k, d, 0, 0, FALSE)] \o
    [m \in 1..leaf.members |->
        Item("note", i, j, k, m, DurationLengthInDivisions(leaf.duration), lid, leaf.is_grace)]

\* BeamedGroup.render, Tuplet.render, _XMLNote.render of an element of a voice
ElementRender(el, i, j) ==
    LET set == IF el.cls = "Tuplet" THEN SetTupletInfoForContents(el, el.ratio) ELSE el
        stamped == IF el.cls = "Leaf" THEN set ELSE RenderContentsBeaming(set)
    IN  [element |-> stamped,
         items |-> Concat([k \in 1..Len(el.contents) |->
                      LeafRender(stamped.contents[k], i, j, k, LengthInDivisions(el.contents[k]))])]

\* for note_or_tuplet in voice: amount_to_backup += ...; measure_element.extend(...)
RECURSIVE VoiceRender(_, _, _, _, _)
VoiceRender(voice, i, j, amount_to_backup, items) ==
    IF j > Len(voice.contents)
    THEN [voice |-> voice, amount_to_backup |-> amount_to_backup, items |-> items]
    ELSE LET r == ElementRender(voice.contents[j], i, j)
         IN  VoiceRender([voice EXCEPT !.contents[j] = r.element], i, j + 1,
                         amount_to_backup + ElementLengthInDivisions(voice.contents[j]),
                         items \o r.items)

\* whether the voice loop emits a backup before voice i (enumerate index i - 1 > 0)
BackupBeforeVoice(i) == i > 1

\* a faulty variant that C1 excludes: a None voice resets the amount to back up
AmountResetByNoneVoice(amount_to_backup) == 0

\* amount_to_backup when the loop passes a None voice
AmountAfterNoneVoice(amount_to_backup) == amount_to_backup

\* for i, voice in enumerate(self.voices)
RECURSIVE VoicesRender(_, _, _, _)
VoicesRender(vs, i, amount_to_backup, items) ==
    IF i > Len(vs)
    THEN [voices |-> vs, amount_to_backup |-> amount_to_backup, items |-> items]
    ELSE IF vs[i].none
    THEN VoicesRender(vs, i + 1, AmountAfterNoneVoice(amount_to_backup), items)
    ELSE LET backup == IF BackupBeforeVoice(i)
                       THEN <<Item("backup", i, 0, 0, 0, amount_to_backup, 0, FALSE)>>
                       ELSE <<>>
             r == VoiceRender(vs[i], i, 1, 0, <<>>)
         IN  VoicesRender([vs EXCEPT ![i] = r.voice], i + 1, r.amount_to_backup,
                          items \o backup \o r.items)

\* a faulty variant that C2 excludes: the cursor is not moved to the displacement of the direction placed
LocationNotUpdated(current_location_in_measure, displacement) ==
    current_location_in_measure

\* current_location_in_measure after a displaced direction was placed at displacement
LocationAfterDirection(current_location_in_measure, displacement) == displacement

\* for direction, displacement in self.directions_with_displacements
RECURSIVE DirectionsRender(_, _, _, _)
DirectionsRender(dwd, k, current_location_in_measure, num_beat_divisions) ==
    IF k > Len(dwd) THEN <<>>
    ELSE LET displacement == Round(RMul(dwd[k], <<num_beat_divisions, 1>>))
             move == IF displacement < current_location_in_measure
                     THEN <<Item("backup", 0, k, 0, 0,
                                 current_location_in_measure - displacement, 0, FALSE)>>
                     ELSE IF displacement > current_location_in_measure
                     THEN <<Item("forward", 0, k, 0, 0,
                                 displacement - current_location_in_measure, 0, FALSE)>>
                     ELSE <<>>
         IN  move \o <<Item("direction", 0, k, 0, 0, 0, 0, FALSE)>> \o
             DirectionsRender(dwd, k + 1,
                 LocationAfterDirection(current_location_in_measure, displacement),
                 num_beat_divisions)

\* Measure.render: the derived fields it writes and the children it returns
MeasureRender(vs, dwd, bar) ==
    LET voiced == SetLeafVoices(vs)
        leaves == Leaves(voiced)
        num_beat_divisions == NumBeatDivisions(voiced, leaves, dwd)
        divided == SetDivisions(voiced, leaves, num_beat_divisions)
        r == VoicesRender(divided, 1, 0, <<>>)
    IN  [voices |-> r.voices,
         out |-> <<Item("attributes", 0, 0, 0, 0, num_beat_divisions, 0, FALSE)>> \o
                 r.items \o
                 DirectionsRender(dwd, 1, r.amount_to_backup, num_beat_divisions) \o
                 (IF bar THEN <<Item("barline", 0, 0, 0, 0, 0, 0, FALSE)>> ELSE <<>>)]

-----------------------------------------------------------------------------
(* The measures the constructors are given *)

\* Note("c4", 1.0)
QuarterNote == XMLNote("Note", Duration("quarter", 0, NoRatio), FALSE, 1, 0)

\* Note("c4", "eighth"), the leaf that insert adds to a group
EighthNote == XMLNote("Note", Duration("eighth", 0, NoRatio), FALSE, 1, 0)

\* Chord(["c4", "e4"], 0.75, directions=[TextAnnotation(...)])
DottedEighthChord == XMLNote("Chord", Duration("eighth", 1, NoRatio), FALSE, 2, 1)

\* GraceNote("c4", 0.5)
GraceEighth == XMLNote("Note", Duration("eighth", 0, NoRatio), TRUE, 1, 0)

\* Tuplet([Note("c4", 0.5), Note("c4", 0.5)], (3, 2))
EighthTriplet == Tuplet(<<EighthNote, EighthNote>>, <<3, 2>>)

\* Note("c4", Duration("1024th", 0, (7, 4)))
Septuplet1024th == XMLNote("Note", Duration("1024th", 0, <<7, 4>>), FALSE, 1, 0)

ElementMenu ==
    {LeafElement(QuarterNote), LeafElement(DottedEighthChord), LeafElement(GraceEighth),
     EighthTriplet, LeafElement(Septuplet1024th)}

DisplacementMenu == {<<1, 300>>, <<2, 5>>, <<3, 2>>}

SeqsUpTo(S, n) == UNION {[1..m -> S] : m \in 0..n}

NoneVoice == [none |-> TRUE, contents |-> <<>>]

\* a voice: None, or a list of at most budget elements
VoiceMenu(budget) ==
    {NoneVoice} \cup
    {[none |-> FALSE, contents |-> c] : c \in SeqsUpTo(ElementMenu, budget) \ {<<>>}}

\* the tuples of n voices that hold at most budget elements together
RECURSIVE VoiceTuples(_, _)
VoiceTuples(n, budget) ==
    IF n = 0 THEN {<<>>}
    ELSE UNION {{<<v>> \o rest : rest \in VoiceTuples(n - 1, budget - Len(v.contents))} :
                   v \in VoiceMenu(budget)}

NumElements(vs) == SeqSum([i \in 1..Len(vs) |-> Len(vs[i].contents)])

MeasureMenu == UNION {VoiceTuples(n, MaxElements) : n \in 1..MaxVoices}

-----------------------------------------------------------------------------
(* Part._validate_slur_numbers *)

\* the number-level range of MusicXML: range(1, 7)
MaxSlurNumber == 6

\* slur ids the caller gives: one that is itself a number of the pool, and others
SlurIds == {2} \cup (MaxSlurNumber + 1)..(MaxSlurNumber + NumOtherIds)

Range(f) == {f[x] : x \in DOMAIN f}

Min(S) == CHOOSE x \in S : \A y \in S : x <= y

\* sum(input_to_output_numbers.values(), [])
OutputNumbersInUse(map) == UNION {Range(map[k]) : k \in DOMAIN map}

\* a faulty variant that C28 excludes: the numbers that open slurs hold count as available
EverySlurNumber(map) == 1..MaxSlurNumber

\* available_slur_numbers
AvailableSlurNumbers(map) == {x \in 1..MaxSlurNumber : x \notin OutputNumbersInUse(map)}

\* a faulty variant that C7 excludes: the last of the available numbers is taken
LastAvailable(available_slur_numbers) ==
    CHOOSE x \in available_slur_numbers : \A y \in available_slur_numbers : y <= x

\* available_slur_numbers[0]
FirstAvailable(available_slur_numbers) == Min(available_slur_numbers)

\* input_to_output_numbers.setdefault(slur_id, []).append(output_num)
SetDefaultAppend(map, slur_id, output_num) ==
    IF slur_id \in DOMAIN map
    THEN [map EXCEPT ![slur_id] = Append(@, output_num)]
    ELSE [k \in DOMAIN map \cup {slur_id} |->
             IF k = slur_id THEN <<output_num>> ELSE map[k]]

\* a faulty variant that C9 excludes: an id that is already mapped is given its open number again
StartOutputNumberReused(map, slur_id) ==
    IF slur_id \in DOMAIN map
    THEN map[slur_id][Len(map[slur_id])]
    ELSE IF slur_id \in AvailableSlurNumbers(map)
    THEN slur_id
    ELSE FirstAvailable(AvailableSlurNumbers(map))

\* the output number a StartSlur is given while numbers are available
StartOutputNumber(map, slur_id) ==
    IF slur_id \in AvailableSlurNumbers(map)
    THEN slur_id
    ELSE FirstAvailable(AvailableSlurNumbers(map))

\* the branch isinstance(notation, StartSlur)
StartSlurStep(map, slur_id) ==
    IF AvailableSlurNumbers(map) # {}
    THEN [map |-> SetDefaultAppend(map, slur_id, StartOutputNumber(map, slur_id)),
          number |-> StartOutputNumber(map, slur_id), warning |-> FALSE]
    ELSE [map |-> map, number |-> slur_id, warning |-> TRUE]

\* a faulty variant that C8 excludes: pop() takes the number of the most recently opened instance
PopLastOutputNumber(numbers) ==
    [number |-> numbers[Len(numbers)], left |-> SubSeq(numbers, 1, Len(numbers) - 1)]

\* input_to_output_numbers[slur_id].pop(0): the number popped and the list left
PopOutputNumber(numbers) == [number |-> Head(numbers), left |-> Tail(numbers)]

\* a faulty variant that C11 excludes: a stop that was never started closes every open slur
MapClearedByStrayStop(map, slur_id) == <<>>

\* the else branch of the StopSlur case only logs: input_to_output_numbers is not touched
MapAfterStrayStop(map, slur_id) == map

\* the branch isinstance(notation, StopSlur)
StopSlurStep(map, slur_id) ==
    IF slur_id \in DOMAIN map
    THEN LET popped == PopOutputNumber(map[slur_id])
         IN  [map |-> IF Len(popped.left) = 0
                      THEN [k \in DOMAIN map \ {slur_id} |-> map[k]]
                      ELSE [map EXCEPT ![slur_id] = popped.left],
              number |-> popped.number, warning |-> FALSE]
    ELSE [map |-> MapAfterStrayStop(map, slur_id), number |-> slur_id, warning |-> TRUE]

NoEvent == [type |-> "none", slur_id |-> 0, number |-> 0, warning |-> FALSE]

\* no slur has been walked
SlurIdle ==
    /\ input_to_output_numbers = <<>>
    /\ last_event = NoEvent

\* no measure is worked on
MeasureIdle ==
    /\ voices = <<NoneVoice>>
    /\ directions_with_displacements = <<>>
    /\ barline = FALSE
    /\ out = <<>>
    /\ renders = 0
    /\ inserts = 0

\* no duration has been asked for
DurationIdle ==
    /\ quarter_length = <<0, 1>>
    /\ max_dots_allowed = 0
    /\ returned = NotCalled

\* what an operation on a group gave back
Queried(op, value) == [op |-> op, value |-> value]

\* no group is worked on by itself
GroupIdle ==
    /\ group = BeamedGroup(<<>>)
    /\ queried = Queried("none", <<0, 1>>)

\* no chord is worked on by itself
ChordIdle ==
    /\ chord = [duration |-> Duration("quarter", 0, NoRatio), notes |-> <<>>]
    /\ last_set = [attribute |-> "none", value |-> "None"]

\* no score element has been returned
NotRendered == [rendered |-> FALSE, part_list |-> <<>>, parts |-> <<>>]

\* Score(): no contents, no Part made
ScoreIdle ==
    /\ score = <<>>
    /\ part_objects = <<>>
    /\ score_xml = NotRendered

\* no container has been constructed
NoContainer == [made |-> FALSE, cls |-> "None", contents |-> <<>>]

\* a call on a container: the method, the objects given and whether it raised
Call(op, objects, raised) == [op |-> op, objects |-> objects, raised |-> raised]

\* no container is worked on by itself
ContainerIdle ==
    /\ container = NoContainer
    /\ last_call = Call("none", <<>>, FALSE)

\* Measure.iter_leaves has not been called
NotIterated == [called |-> FALSE, raised |-> FALSE, leaves |-> <<>>]

\* no call of Measure.iter_leaves is looked at
IterIdle ==
    /\ asked_voices = {}
    /\ yielded = NotIterated

\* no note is rendered by itself
NoteIdle ==
    /\ note = [made |-> FALSE]
    /\ note_xml = <<>>

\* Measure.__init__: at most MaxObjects elements, directions and barline together
Init ==
    /\ voices \in MeasureMenu
    /\ directions_with_displacements \in SeqsUpTo(DisplacementMenu, MaxDirections)
    /\ barline \in BOOLEAN
    /\ NumElements(voices) + Len(directions_with_displacements)
          + (IF barline THEN 1 ELSE 0) <= MaxObjects
    /\ out = <<>>
    /\ renders = 0
    /\ inserts = 0
    /\ SlurIdle
    /\ DurationIdle
    /\ GroupIdle
    /\ ChordIdle
    /\ ScoreIdle
    /\ ContainerIdle
    /\ IterIdle
    /\ NoteIdle

\* group.insert(pos, Note("c4", "eighth")) on a BeamedGroup or Tuplet of the measure
Insert(i, j, pos) ==
    /\ renders + inserts < MaxOperations
    /\ ~voices[i].none
    /\ voices[i].contents[j].cls # "Leaf"
    /\ voices' = [voices EXCEPT ![i].contents[j] = ContainerInsert(@, pos, EighthNote)]
    /\ inserts' = inserts + 1
    /\ UNCHANGED <<directions_with_displacements, barline, out, renders, notMeasureVars>>

\* measure.render()
Render ==
    /\ renders + inserts < MaxOperations
    /\ ~IterLeavesRaises(voices)
    /\ \E r \in {MeasureRender(voices, directions_with_displacements, barline)} :
          /\ voices' = r.voices
          /\ out' = r.out
    /\ renders' = renders + 1
    /\ UNCHANGED <<directions_with_displacements, barline, inserts, notMeasureVars>>

Next ==
    \/ \E i \in 1..Len(voices) : \E j \in 1..Len(voices[i].contents) :
          \E pos \in {0, Len(voices[i].contents[j].contents)} : Insert(i, j, pos)
    \/ Render

Spec == Init /\ [][Next]_vars

-----------------------------------------------------------------------------
(* The walk of Part._validate_slur_numbers over the notations of a part *)

\* input_to_output_numbers = {} before the first leaf
SlurInit ==
    /\ MeasureIdle
    /\ SlurIdle
    /\ DurationIdle
    /\ GroupIdle
    /\ ChordIdle
    /\ ScoreIdle
    /\ ContainerIdle
    /\ IterIdle
    /\ NoteIdle

\* the walk meets StartSlur(slur_id)
WalkStartSlur(slur_id) ==
    /\ LET r == StartSlurStep(input_to_output_numbers, slur_id)
       IN  /\ input_to_output_numbers' = r.map
           /\ last_event' = [type |-> "start", slur_id |-> slur_id,
                             number |-> r.number, warning |-> r.warning]
    /\ UNCHANGED notSlurVars

\* the walk meets StopSlur(slur_id)
WalkStopSlur(slur_id) ==
    /\ LET r == StopSlurStep(input_to_output_numbers, slur_id)
       IN  /\ input_to_output_numbers' = r.map
           /\ last_event' = [type |-> "stop", slur_id |-> slur_id,
                             number |-> r.number, warning |-> r.warning]
    /\ UNCHANGED notSlurVars

SlurNext ==
    \/ \E slur_id \in SlurIds : WalkStartSlur(slur_id)
    \/ \E slur_id \in SlurIds : WalkStopSlur(slur_id)

SpecSlur == SlurInit /\ [][SlurNext]_vars

-----------------------------------------------------------------------------
(* Durations made from a length in quarter notes *)

\* lengths that no note type with dots gives: zero, a third, five sixteenths,
\* five quarters, a 2048th, a longa, and eleven eighths
OtherLengths == {<<0, 1>>, <<1, 3>>, <<5, 16>>, <<5, 4>>, <<1, 512>>, <<16, 1>>, <<11, 8>>}

\* every note type with no dots up to one dot more than is ever allowed, and the others
LengthMenu ==
    {RMul(NoteTypeToLength[NoteTypes[k]], DotMultiplier(d)) :
        k \in 1..Len(NoteTypes), d \in 0..(MaxDotsAsked + 1)} \cup OtherLengths

\* a length and a limit of dots are chosen; nothing has been called on them
DurationStart ==
    /\ MeasureIdle
    /\ SlurIdle
    /\ quarter_length \in LengthMenu
    /\ max_dots_allowed \in 0..MaxDotsAsked
    /\ returned = NotCalled
    /\ GroupIdle
    /\ ChordIdle
    /\ ScoreIdle
    /\ ContainerIdle
    /\ IterIdle
    /\ NoteIdle

\* Duration.get_note_type_and_number_of_dots(quarter_length, max_dots_allowed)
CallGetNoteTypeAndNumberOfDots ==
    /\ returned = NotCalled
    /\ returned' = GetNoteTypeAndNumberOfDots(quarter_length, max_dots_allowed)
    /\ UNCHANGED <<quarter_length, max_dots_allowed, notDurationVars>>

\* Duration.from_written_length(quarter_length, max_dots_allowed=max_dots_allowed)
CallFromWrittenLength ==
    /\ returned = NotCalled
    /\ \E r \in {FromWrittenLength(quarter_length, NoRatio, max_dots_allowed)} :
          returned' = IF r.raised THEN RaisesValueError("from_written_length")
                      ELSE Returns("from_written_length",
                                   r.duration.note_type, r.duration.num_dots)
    /\ UNCHANGED <<quarter_length, max_dots_allowed, notDurationVars>>

\* Note("c4", quarter_length) and Rest(quarter_length): the limit of dots is the default
ConstructNote(kind) ==
    /\ returned = NotCalled
    /\ max_dots_allowed = DefaultMaxDotsAllowed
    /\ \E r \in {NoteOfLength(kind, quarter_length)} :
          returned' = IF r.raised THEN RaisesValueError(kind)
                      ELSE Returns(kind, r.leaf.duration.note_type, r.leaf.duration.num_dots)
    /\ UNCHANGED <<quarter_length, max_dots_allowed, notDurationVars>>

DurationNext ==
    \/ CallGetNoteTypeAndNumberOfDots
    \/ CallFromWrittenLength
    \/ \E kind \in {"Note", "Rest"} : ConstructNote(kind)

SpecDuration == DurationStart /\ [][DurationNext]_vars

-----------------------------------------------------------------------------
(* What a rendered measure element is read for *)

Max(S) == CHOOSE x \in S : \A y \in S : y <= x

\* measure.render() has returned
Rendered == renders > 0

\* the value of <divisions> in the attributes block of the rendered measure
Divisions == out[1].dur

\* the voices that are not None
PopulatedVoices == {i \in 1..Len(voices) : ~voices[i].none}

\* a note or an attached direction that voice i rendered
IsVoiceElement(x) == x.voice > 0 /\ x.tag \in {"note", "direction"}

\* where the elements of voice i stand among the children
ElementPositions(o, i) == {p \in 1..Len(o) : IsVoiceElement(o[p]) /\ o[p].voice = i}

\* the sum over its leaves of the length_in_divisions voice i had when it was emitted
VoiceTicks(o, i) ==
    SeqSum([p \in 1..Len(o) |->
              IF o[p].tag = "note" /\ o[p].voice = i /\ o[p].member = 1
              THEN o[p].lid ELSE 0])

\* C1: after a render, immediately before the first element of each populated
\* voice other than the first one emitted stands exactly one backup, whose duration
\* is the sum of length_in_divisions of the elements of the previously emitted
\* voice (None voices in between do not reset it), and no backup stands between
\* two elements of the same voice.
C1_BackupBetweenVoices ==
    Rendered =>
       /\ \A i \in PopulatedVoices :
             (\E h \in PopulatedVoices : h < i) =>
                LET prev == Max({h \in PopulatedVoices : h < i})
                    first == Min(ElementPositions(out, i))
                    last_of_prev == Max(ElementPositions(out, prev))
                IN  /\ first = last_of_prev + 2
                    /\ out[first - 1].tag = "backup"
                    /\ out[first - 1].dur = VoiceTicks(out, prev)
       /\ \A p \in 1..Len(out) :
             out[p].tag = "backup" =>
                ~ \E a \in 1..(p - 1) : \E b \in (p + 1)..Len(out) :
                      /\ IsVoiceElement(out[a])
                      /\ IsVoiceElement(out[b])
                      /\ out[a].voice = out[b].voice

\* C1 witness: voices [two quarters], None, [one quarter]: exactly one backup, of
\* two beats, before the quarter of voice 3
C1_Witness ==
    /\ Rendered
    /\ Len(voices) = 3
    /\ PopulatedVoices = {1, 3}
    /\ VoiceTicks(out, 1) = 2 * Divisions
    /\ VoiceTicks(out, 3) = Divisions
    /\ Cardinality({p \in 1..Len(out) : out[p].tag = "backup"}) = 1
    /\ \E p \in 1..Len(out) : out[p].tag = "backup" /\ out[p].dur = 2 * Divisions

\* the tick length of the last emitted voice (0 when every voice is None)
LastVoiceTicks(o) ==
    IF PopulatedVoices = {} THEN 0 ELSE VoiceTicks(o, Max(PopulatedVoices))

\* where the k-th displaced direction stands among the children
DirectionPositions(o, k) ==
    {p \in 1..Len(o) : o[p].tag = "direction" /\ o[p].voice = 0 /\ o[p].idx = k}

\* the last child of the attributes and voices
VoicePhaseEnd(o) == Max({p \in 1..Len(o) : o[p].tag = "attributes" \/ o[p].voice > 0})

\* round(displacement * divisions) of the k-th displaced direction
TargetTick(o, k) == Round(RMul(directions_with_displacements[k], <<o[1].dur, 1>>))

\* the sum of the markers of one tag emitted after the voices and before child p
MarkersBefore(o, p, tag) ==
    SeqSum([q \in 1..Len(o) |->
              IF q < p /\ o[q].voice = 0 /\ o[q].tag = tag THEN o[q].dur ELSE 0])

\* C2: after a render, each displaced direction, in list order, is preceded by a
\* backup of (cursor - target) if its target tick is before the cursor, by a
\* forward of (target - cursor) if it is after, by nothing if they are equal,
\* where the cursor starts at the tick length of the last emitted voice and
\* becomes the target after each direction; so last voice length + forwards so
\* far - backups so far is the target of every direction when it is emitted.
C2_DirectionCursor ==
    Rendered =>
       \A k \in 1..Len(directions_with_displacements) :
          /\ Cardinality(DirectionPositions(out, k)) = 1
          /\ LET p == Min(DirectionPositions(out, k))
                 prev == IF k = 1 THEN VoicePhaseEnd(out)
                         ELSE Min(DirectionPositions(out, k - 1))
                 cursor == IF k = 1 THEN LastVoiceTicks(out) ELSE TargetTick(out, k - 1)
                 target == TargetTick(out, k)
             IN  /\ target < cursor =>
                       /\ p = prev + 2
                       /\ out[p - 1].tag = "backup"
                       /\ out[p - 1].dur = cursor - target
                 /\ target > cursor =>
                       /\ p = prev + 2
                       /\ out[p - 1].tag = "forward"
                       /\ out[p - 1].dur = target - cursor
                 /\ target = cursor => p = prev + 1
                 /\ LastVoiceTicks(out) + MarkersBefore(out, p, "forward")
                       - MarkersBefore(out, p, "backup") = target

\* C2 witness: two displaced directions, the first reached by a forward and the
\* second by a backup
C2_Witness ==
    /\ Rendered
    /\ Len(directions_with_displacements) = 2
    /\ \E p \in 1..Len(out) : out[p].voice = 0 /\ out[p].tag = "forward" /\ out[p].idx = 1
    /\ \E p \in 1..Len(out) : out[p].voice = 0 /\ out[p].tag = "backup" /\ out[p].idx = 2
    /\ LastVoiceTicks(out) > 0

\* a step in which measure.render() runs
RenderStep == renders' = renders + 1

\* the references <<voice, element, leaf>> of every leaf of the populated voices
LeafRefs(vs) ==
    UNION {UNION {{<<i, j, k>> : k \in 1..Len(vs[i].contents[j].contents)} :
                     j \in 1..Len(vs[i].contents)} :
              i \in {h \in 1..Len(vs) : ~vs[h].none}}

\* the sum of the <duration> values rendered for the non-grace leaves of voice i
RenderedTicks(o, i) ==
    SeqSum([p \in 1..Len(o) |->
              IF o[p].tag = "note" /\ o[p].voice = i /\ o[p].member = 1 /\ ~o[p].grace
              THEN o[p].dur ELSE 0])

\* no drift in the children o of a measure whose voices are vs after the render
NoDrift(vs, o) ==
    /\ \A p \in 1..Len(o) :
          (o[p].tag = "backup" /\ o[p].voice > 0) =>
             LET before == {h \in 1..(o[p].voice - 1) : ~vs[h].none}
             IN  before # {} => o[p].dur = RenderedTicks(o, Max(before))
    /\ \A p \in 1..Len(o) :
          (o[p].tag = "note" /\ ~o[p].grace) =>
             RMul(TrueLength(vs[o[p].voice].contents[o[p].idx].contents[o[p].leaf]),
                  <<o[1].dur, 1>>) = <<o[p].dur, 1>>

\* C3: every render, also of a measure whose Tuplet was given a leaf after its
\* construction, emits after each populated voice a backup amount equal to the
\* sum of the <duration> values rendered for the non-grace leaves of that voice,
\* and every rendered <duration> is true_length * divisions exactly.
C3_NoDrift == [][RenderStep => NoDrift(voices', out')]_vars

\* the least common multiple of a set of positive integers
RECURSIVE SetLcm(_)
SetLcm(S) ==
    IF S = {} THEN 1
    ELSE LET x == CHOOSE y \in S : TRUE
             m == SetLcm(S \ {x})
         IN  (x * m) \div Gcd(x, m)

\* the denominator of the true length of a leaf in lowest terms, a grace note counting 1
LowestTermsDenominator(leaf) ==
    IF leaf.is_grace THEN 1
    ELSE LET d == leaf.duration
             written == RMul(NoteTypeToLength[d.note_type],
                             Fraction(Pow2(d.num_dots + 1) - 1, Pow2(d.num_dots)))
         IN  IF d.tuplet_ratio = NoRatio THEN written[2]
             ELSE RMul(written, Fraction(d.tuplet_ratio[2], d.tuplet_ratio[1]))[2]

\* the leaf-based base division of a measure
LeafDivision(vs) == SetLcm({LowestTermsDenominator(LeafAt(vs, r)) : r \in LeafRefs(vs)})

\* the denominators of the displacements, each limited to a denominator of at most 256
DisplacementDenominators(dwd) ==
    {LimitDenominator(dwd[k], DisplacementMaxDenominator)[2] : k \in 1..Len(dwd)}

\* the base division combined with the division of the displacements
CombinedDivision(vs, dwd) == SetLcm({LeafDivision(vs)} \cup DisplacementDenominators(dwd))

\* C4: every render writes in the attributes block one divisions value, which is
\* the LCM of the denominators of all leaves of the populated voices (contents of
\* groups expanded, grace notes counting 1), combined by LCM with the denominators
\* of the displacements (each limited to 256) whenever the combined value is at
\* most 1024 (without displaced directions it is the LCM of the leaves); after
\* the render every leaf of the measure, inside groups too, has that divisions,
\* and all the member notes of a chord render the same duration.
C4_DivisionsIsLcm ==
    [][RenderStep =>
         /\ out'[1].tag = "attributes"
         /\ directions_with_displacements = <<>> => out'[1].dur = LeafDivision(voices)
         /\ CombinedDivision(voices, directions_with_displacements) <= DivisionsCeiling =>
               out'[1].dur = CombinedDivision(voices, directions_with_displacements)
         /\ \A r \in LeafRefs(voices') : LeafAt(voices', r).duration.divisions = out'[1].dur
         /\ \A p, q \in 1..Len(out') :
               (/\ out'[p].tag = "note" /\ out'[q].tag = "note"
                /\ out'[p].voice = out'[q].voice /\ out'[p].idx = out'[q].idx
                /\ out'[p].leaf = out'[q].leaf) => out'[p].dur = out'[q].dur
    ]_vars

\* C4 witness: a grace eighth, a dotted-eighth chord and a direction displaced by
\* 2/5 of a beat rendered with 20 divisions in every leaf
C4_Witness ==
    /\ Rendered
    /\ Divisions = 20
    /\ \E r \in LeafRefs(voices) : LeafAt(voices, r).is_grace
    /\ \E r \in LeafRefs(voices) : LeafAt(voices, r).members = 2
    /\ \A r \in LeafRefs(voices) : LeafAt(voices, r).duration.divisions = 20
    /\ directions_with_displacements = <<(<<2, 5>>)>>

\* the largest power-of-two multiple of base that does not exceed the ceiling
IsLargestScaling(d, base) ==
    \E k \in 0..10 : d = base * Pow2(k) /\ d <= DivisionsCeiling /\ 2 * d > DivisionsCeiling

\* C5 as claimed: every render produces a divisions value of at most 1024, and when
\* the LCM of the base division and the direction division exceeds 1024 the value
\* is base * 2^k with k >= 0 the largest such that base * 2^k <= 1024.
C5_NeverExceedsCeiling ==
    [][RenderStep =>
         /\ out'[1].dur <= DivisionsCeiling
         /\ CombinedDivision(voices, directions_with_displacements) > DivisionsCeiling =>
               IsLargestScaling(out'[1].dur, LeafDivision(voices))
    ]_vars

\* C5 amended: when the base division of the leaves is at most 1024, the divisions
\* value of every render is at most 1024, and if the LCM of the base and the
\* direction division exceeds 1024 it is base * 2^k with k >= 0 the largest such
\* that base * 2^k <= 1024; when the base division exceeds 1024, it is the base.
C5_CeilingForDirections ==
    [][RenderStep =>
         /\ LeafDivision(voices) <= DivisionsCeiling =>
               /\ out'[1].dur <= DivisionsCeiling
               /\ CombinedDivision(voices, directions_with_displacements) > DivisionsCeiling =>
                     IsLargestScaling(out'[1].dur, LeafDivision(voices))
         /\ LeafDivision(voices) > DivisionsCeiling => out'[1].dur = LeafDivision(voices)
    ]_vars

\* C5 witness: a base division of 448 and a displacement of 1/300 (limited to
\* 1/256) have the LCM 1792; the render gave 896 = 448 * 2
C5_Witness ==
    /\ Rendered
    /\ inserts = 0
    /\ LeafDivision(voices) = 448
    /\ CombinedDivision(voices, directions_with_displacements) = 1792
    /\ Divisions = 896

\* the phase of a child: attributes, voices, displaced directions, barline
Phase(x) ==
    IF x.tag = "attributes" THEN 0
    ELSE IF x.voice > 0 THEN 1
    ELSE IF x.tag = "barline" THEN 3
    ELSE 2

\* C6: in a rendered measure the attributes block is first; then come the elements
\* of the populated voices in the order of the voice indices, with backup markers
\* only between voices; then the displaced directions in list order, each with at
\* most one backup or forward marker right before it; then the barline, when one
\* is set, is last; no child of a later phase precedes one of an earlier phase.
C6_ChildOrder ==
    Rendered =>
       /\ out[1].tag = "attributes"
       /\ \A p \in 2..Len(out) : out[p].tag # "attributes"
       /\ \A p, q \in 1..Len(out) : p < q => Phase(out[p]) <= Phase(out[q])
       /\ \A p, q \in 1..Len(out) :
             (p < q /\ IsVoiceElement(out[p]) /\ IsVoiceElement(out[q])) =>
                out[p].voice <= out[q].voice
       /\ \A p \in 1..Len(out) :
             (out[p].tag = "backup" /\ out[p].voice > 0) =>
                /\ \E a \in 1..(p - 1) : IsVoiceElement(out[a])
                /\ \E b \in (p + 1)..Len(out) : IsVoiceElement(out[b])
                /\ \A a \in 1..(p - 1) : \A b \in (p + 1)..Len(out) :
                      (IsVoiceElement(out[a]) /\ IsVoiceElement(out[b])) =>
                         out[a].voice < out[b].voice
       /\ \A k \in 1..Len(directions_with_displacements) :
             /\ Cardinality(DirectionPositions(out, k)) = 1
             /\ k > 1 => Min(DirectionPositions(out, k - 1)) < Min(DirectionPositions(out, k))
             /\ LET markers == {p \in 1..Len(out) :
                                   /\ out[p].voice = 0
                                   /\ out[p].tag \in {"backup", "forward"}
                                   /\ out[p].idx = k}
                IN  /\ Cardinality(markers) <= 1
                    /\ \A p \in markers : p + 1 \in DirectionPositions(out, k)
       /\ \A p \in 1..Len(out) :
             (out[p].voice = 0 /\ out[p].tag \in {"backup", "forward"}) =>
                out[p].idx \in 1..Len(directions_with_displacements)
       /\ \A p \in 1..Len(out) : out[p].tag = "barline" => (barline /\ p = Len(out))
       /\ barline => out[Len(out)].tag = "barline"

-----------------------------------------------------------------------------
(* What the walk over the slurs is read for *)

\* the output slots held by the open slurs of any external id
HeldSlots(map) ==
    {x \in 1..MaxSlurNumber : \E k \in DOMAIN map : \E n \in 1..Len(map[k]) : map[k][n] = x}

FreeSlots(map) == (1..MaxSlurNumber) \ HeldSlots(map)

\* the walk has just met a StartSlur / a StopSlur
StartWalked == last_event'.type = "start"
StopWalked == last_event'.type = "stop"

\* C7 as claimed: a start-slur whose external id is not mapped to an open slot is
\* assigned the lowest-numbered slot of 1..6 that no open slur holds, whatever the
\* id, also when the id is itself an integer in 1..6.
C7_LowestFreeSlot ==
    [][(/\ StartWalked
        /\ last_event'.slur_id \notin DOMAIN input_to_output_numbers
        /\ FreeSlots(input_to_output_numbers) # {}) =>
          /\ last_event'.number = Min(FreeSlots(input_to_output_numbers))
          /\ input_to_output_numbers'[last_event'.slur_id] = <<last_event'.number>>
    ]_vars

\* C7 amended: a start-slur whose external id is not mapped to an open slot is
\* assigned its own id when that id is an integer in 1..6 that no open slur holds,
\* and otherwise the lowest-numbered slot of 1..6 that no open slur holds; slots of
\* stopped slurs count as free.
C7_OwnIdOrLowestFreeSlot ==
    [][(/\ StartWalked
        /\ last_event'.slur_id \notin DOMAIN input_to_output_numbers
        /\ FreeSlots(input_to_output_numbers) # {}) =>
          /\ last_event'.number =
                IF last_event'.slur_id \in FreeSlots(input_to_output_numbers)
                THEN last_event'.slur_id
                ELSE Min(FreeSlots(input_to_output_numbers))
          /\ input_to_output_numbers'[last_event'.slur_id] = <<last_event'.number>>
          /\ \A k \in DOMAIN input_to_output_numbers :
                input_to_output_numbers'[k] = input_to_output_numbers[k]
    ]_vars

\* C7 witness: start 7, start 7, stop 7, start 2: the id 7 was given 1 and 2 and
\* gave 1 back, and the id 2, whose own number is held by 7, is given the freed
\* slot 1
C7_Witness ==
    /\ last_event = [type |-> "start", slur_id |-> 2, number |-> 1, warning |-> FALSE]
    /\ DOMAIN input_to_output_numbers = {2, 7}
    /\ input_to_output_numbers[7] = <<2>>
    /\ input_to_output_numbers[2] = <<1>>

\* C8 as claimed: a stop-slur with an id that has open instances receives the slot
\* of the most recently opened instance (LIFO), that slot is released, and the id
\* leaves the mapping exactly when its list of open slots becomes empty.
C8_StopMostRecent ==
    [][(StopWalked /\ last_event'.slur_id \in DOMAIN input_to_output_numbers) =>
          LET K == last_event'.slur_id
              open == input_to_output_numbers[K]
          IN  /\ last_event'.number = open[Len(open)]
              /\ IF Len(open) = 1
                 THEN K \notin DOMAIN input_to_output_numbers'
                 ELSE /\ K \in DOMAIN input_to_output_numbers'
                      /\ input_to_output_numbers'[K] = SubSeq(open, 1, Len(open) - 1)
    ]_vars

\* C8 amended: a stop-slur with an id that has open instances receives the slot
\* of the earliest opened instance still open (FIFO), that slot is released, and
\* the id leaves the mapping exactly when its list of open slots becomes empty.
C8_StopEarliest ==
    [][(StopWalked /\ last_event'.slur_id \in DOMAIN input_to_output_numbers) =>
          LET K == last_event'.slur_id
              open == input_to_output_numbers[K]
          IN  /\ last_event'.number = open[1]
              /\ IF Len(open) = 1
                 THEN K \notin DOMAIN input_to_output_numbers'
                 ELSE /\ K \in DOMAIN input_to_output_numbers'
                      /\ input_to_output_numbers'[K] = SubSeq(open, 2, Len(open))
              /\ \A k \in DOMAIN input_to_output_numbers \ {K} :
                    /\ k \in DOMAIN input_to_output_numbers'
                    /\ input_to_output_numbers'[k] = input_to_output_numbers[k]
    ]_vars

\* C8 witness: start 7, start 7, stop 7: the stop received slot 1 of the first
\* instance and the second instance keeps slot 2
C8_Witness ==
    /\ last_event = [type |-> "stop", slur_id |-> 7, number |-> 1, warning |-> FALSE]
    /\ DOMAIN input_to_output_numbers = {7}
    /\ input_to_output_numbers[7] = <<2>>

C10_OverflowOmitsSeventh ==
    [][StartWalked =>
          /\ FreeSlots(input_to_output_numbers) = {} =>
                /\ last_event'.warning
                /\ input_to_output_numbers' = input_to_output_numbers
          /\ last_event'.number \in 1..MaxSlurNumber
    ]_vars

\* C11: a stop-slur whose external id has no open mapping gives a warning and
\* raises nothing; the mapping of the open slurs is left as it was, so every start
\* and stop that follows is numbered as it would have been without that stop.
C11_StrayStopIgnored ==
    [][(StopWalked /\ last_event'.slur_id \notin DOMAIN input_to_output_numbers) =>
          /\ last_event'.warning
          /\ input_to_output_numbers' = input_to_output_numbers
          /\ \A e \in SlurIds :
                /\ StartSlurStep(input_to_output_numbers', e) =
                      StartSlurStep(input_to_output_numbers, e)
                /\ StopSlurStep(input_to_output_numbers', e) =
                      StopSlurStep(input_to_output_numbers, e)
    ]_vars

\* C11 witness: start 2, stop 7: the stop of the id 7 that was never started gave
\* a warning and the slur of the id 2 is still open on its number
C11_Witness ==
    /\ last_event = [type |-> "stop", slur_id |-> 7, number |-> 7, warning |-> TRUE]
    /\ DOMAIN input_to_output_numbers = {2}
    /\ input_to_output_numbers[2] = <<2>>

-----------------------------------------------------------------------------
(* A BeamedGroup or Tuplet by itself: constructed, added to, asked for its  *)
(* lengths, beamed and rendered                                             *)

\* Note("c4", 0.25)
SixteenthNote == XMLNote("Note", Duration("16th", 0, NoRatio), FALSE, 1, 0)

\* Rest(0.5)
EighthRest == XMLNote("Rest", Duration("eighth", 0, NoRatio), FALSE, 1, 0)

GroupLeafMenu ==
    {EighthNote, SixteenthNote, QuarterNote, DottedEighthChord, GraceEighth, EighthRest}

\* Note("c4", Duration(note_type, num_dots))
NoteOfType(note_type, num_dots) ==
    XMLNote("Note", Duration(note_type, num_dots, NoRatio), FALSE, 1, 0)

\* the ratios of the tuplets
RatioMenu == {<<3, 2>>, <<5, 4>>}

\* groups of the leaves of the menu, and a pair of notes of every note type and number of dots
GroupMenu ==
    LET mixed == SeqsUpTo(GroupLeafMenu, MaxGroupLeaves) \ {<<>>}
        pairs == {<<NoteOfType(NoteTypes[k], d), NoteOfType(NoteTypes[k], d)>> :
                     k \in 1..Len(NoteTypes), d \in 0..DefaultMaxDotsAllowed}
    IN  {BeamedGroup(c) : c \in mixed \cup pairs} \cup
        {Tuplet(c, <<3, 2>>) : c \in mixed} \cup
        {Tuplet(c, ratio) : c \in pairs, ratio \in RatioMenu}

\* BeamedGroup(contents), Tuplet(contents, ratio)
GroupStart ==
    /\ MeasureIdle
    /\ SlurIdle
    /\ DurationIdle
    /\ group \in GroupMenu
    /\ queried = Queried("__init__", <<0, 1>>)
    /\ ChordIdle
    /\ ScoreIdle
    /\ ContainerIdle
    /\ IterIdle
    /\ NoteIdle

\* group.insert(pos, Note("c4", "eighth")); append is the insert at the end
GroupInsert(pos) ==
    /\ Len(group.contents) < MaxGroupLeaves
    /\ group' = ContainerInsert(group, pos, EighthNote)
    /\ queried' = Queried("insert", <<0, 1>>)
    /\ UNCHANGED notGroupVars

\* del group[pos]; a leaf is left in the group
GroupDelete(pos) ==
    /\ Len(group.contents) > 1
    /\ group' = ContainerDelItem(group, pos)
    /\ queried' = Queried("__delitem__", <<0, 1>>)
    /\ UNCHANGED notGroupVars

\* group.true_length
GroupTrueLength ==
    /\ queried' = Queried("true_length", ElementTrueLength(group))
    /\ UNCHANGED <<group, notGroupVars>>

\* group.length_in_divisions
GroupLengthInDivisions ==
    /\ queried' = Queried("length_in_divisions", <<ElementLengthInDivisions(group), 1>>)
    /\ UNCHANGED <<group, notGroupVars>>

\* group.min_denominator()
GroupMinDenominator ==
    /\ IF group.cls = "Tuplet"
       THEN \E r \in {TupletMinDenominator(group)} :
               /\ group' = r.element
               /\ queried' = Queried("min_denominator", <<r.value, 1>>)
       ELSE /\ group' = group
            /\ queried' = Queried("min_denominator", <<BeamedGroupMinDenominator(group), 1>>)
    /\ UNCHANGED notGroupVars

\* group.render_contents_beaming(); the value counts the runs since the group was made or added to
GroupRenderContentsBeaming ==
    /\ group' = RenderContentsBeaming(group)
    /\ queried' = Queried("render_contents_beaming",
                          IF queried.op = "render_contents_beaming" THEN <<2, 1>> ELSE <<1, 1>>)
    /\ UNCHANGED notGroupVars

\* group.render(); the value is the number of elements returned
GroupRender ==
    /\ \E r \in {ElementRender(group, 1, 1)} :
          /\ group' = r.element
          /\ queried' = Queried("render", <<Len(r.items), 1>>)
    /\ UNCHANGED notGroupVars

GroupNext ==
    \/ \E pos \in {0, Len(group.contents)} : GroupInsert(pos)
    \/ GroupTrueLength
    \/ GroupLengthInDivisions
    \/ GroupMinDenominator
    \/ GroupRenderContentsBeaming
    \/ GroupRender

SpecGroup == GroupStart /\ [][GroupNext]_vars

\* Tuplet(contents, (3, 2)) of eighths and 16ths, to be added to and deleted from
TupletStart ==
    /\ MeasureIdle
    /\ SlurIdle
    /\ DurationIdle
    /\ group \in {Tuplet(c, <<3, 2>>) :
                    c \in SeqsUpTo({EighthNote, SixteenthNote}, MaxGroupLeaves - 1) \ {<<>>}}
    /\ queried = Queried("__init__", <<0, 1>>)
    /\ ChordIdle
    /\ ScoreIdle
    /\ ContainerIdle
    /\ IterIdle
    /\ NoteIdle

TupletNext ==
    \/ \E pos \in {0, Len(group.contents)} : GroupInsert(pos)
    \/ \E pos \in {0, Len(group.contents) - 1} : GroupDelete(pos)
    \/ GroupMinDenominator
    \/ GroupRender

SpecTuplet == TupletStart /\ [][TupletNext]_vars

-----------------------------------------------------------------------------
(* A Chord by itself: constructed and its shared attributes set *)

TieValues == {"None", "start", "stop"}

BeamsValues == {<<>>, <<"begin">>, <<"end">>}

\* Chord(pitches, duration, ties=...): ties one value for all notes, or a list
ChordStart ==
    /\ MeasureIdle
    /\ SlurIdle
    /\ DurationIdle
    /\ GroupIdle
    /\ \E n \in 2..MaxChordNotes :
          \E duration \in {Duration("quarter", 0, NoRatio), Duration("eighth", 1, NoRatio)} :
             \E ties \in [1..n -> TieValues] :
                chord = ChordOfNotes(duration, ties)
    /\ last_set = [attribute |-> "none", value |-> "None"]
    /\ ScoreIdle
    /\ ContainerIdle
    /\ IterIdle
    /\ NoteIdle

\* chord.divisions = value
SetChordDivisions(value) ==
    /\ chord' = ChordDivisionsSetter(chord, value)
    /\ last_set' = [attribute |-> "divisions", value |-> value]
    /\ UNCHANGED notChordVars

\* chord.voice = value
SetChordVoice(value) ==
    /\ chord' = ChordVoiceSetter(chord, value)
    /\ last_set' = [attribute |-> "voice", value |-> value]
    /\ UNCHANGED notChordVars

\* chord.beams = value
SetChordBeams(value) ==
    /\ chord' = ChordBeamsSetter(chord, value)
    /\ last_set' = [attribute |-> "beams", value |-> value]
    /\ UNCHANGED notChordVars

\* chord.ties = value, one value
SetChordTies(value) ==
    /\ chord' = ChordTiesSetter(chord, value)
    /\ last_set' = [attribute |-> "ties", value |-> value]
    /\ UNCHANGED notChordVars

\* chord.ties = value, a list with one value per note
SetChordTiesList(value) ==
    /\ chord' = ChordTiesListSetter(chord, value)
    /\ last_set' = [attribute |-> "ties list", value |-> value]
    /\ UNCHANGED notChordVars

\* chord.tuplet_bracket = value
SetChordTupletBracket(value) ==
    /\ chord' = ChordTupletBracketSetter(chord, value)
    /\ last_set' = [attribute |-> "tuplet_bracket", value |-> value]
    /\ UNCHANGED notChordVars

ChordNext ==
    \/ \E value \in {4, 12} : SetChordDivisions(value)
    \/ \E value \in {1, 2} : SetChordVoice(value)
    \/ \E value \in BeamsValues : SetChordBeams(value)
    \/ \E value \in TieValues : SetChordTies(value)
    \/ \E value \in [1..Len(chord.notes) -> TieValues] : SetChordTiesList(value)
    \/ \E value \in {"start", "stop"} : SetChordTupletBracket(value)

SpecChord == ChordStart /\ [][ChordNext]_vars

-----------------------------------------------------------------------------
(* Score, PartGroup and Part: the numbering of parts and measures at render *)

\* Measure(contents, number=number): contents stands for the music in the bar
Measure(contents, number) == [number |-> number, contents |-> contents]

\* the measures a caller makes: the default number, and another one
PartMeasureMenu == {Measure("c", 1), Measure("d", 5)}

\* the part_id a Part is constructed with: the default, and another one
PartIdMenu == {1, 7}

\* Part(part_name, measures, part_id)
Part(part_name, measures, part_id) ==
    [part_name |-> part_name, part_id |-> part_id, measures |-> measures]

\* a Part among the contents of a Score, held by reference
PartContent(ref) == [cls |-> "Part", parts |-> <<ref>>]

\* PartGroup(parts), the Parts held by reference
PartGroup(parts) == [cls |-> "PartGroup", parts |-> parts]

\* Score.parts: the parts of the score, part groups expanded
ScoreParts(contents) == Concat([i \in 1..Len(contents) |-> contents[i].parts])

\* "P{}".format(part_id)
PartIdString(part_id) == "P" \o ToString(part_id)

NextIdKept(next_id) == next_id

\* next_id += 1
NextId(next_id) == next_id + 1

\* Score._set_part_numbers: part.part_id = next_id for the parts in turn
RECURSIVE SetPartNumbers(_, _, _)
SetPartNumbers(objects, refs, next_id) ==
    IF refs = <<>> THEN objects
    ELSE SetPartNumbers([objects EXCEPT ![Head(refs)].part_id = next_id],
                        Tail(refs), NextId(next_id))

\* measure.number = i + 1 for i, measure in enumerate(part_copy.measures)
MeasureNumber(i) == i + 1

\* Measure.render: the measure element, number=str(self.number)
MeasureElement(measure) ==
    [number |-> ToString(measure.number), contents |-> measure.contents]

\* Part.render: the part element, measures numbered on a copy of the part
PartRender(part) ==
    [id |-> PartIdString(part.part_id),
     measures |-> [k \in 1..Len(part.measures) |->
                      MeasureElement([part.measures[k] EXCEPT !.number = MeasureNumber(k - 1)])]]

\* Part.render_part_list_entry: the score-part element
PartRenderPartListEntry(part) ==
    [tag |-> "score-part", type |-> "", id |-> PartIdString(part.part_id),
     part_name |-> part.part_name]

\* PartGroup._render_start_element, PartGroup._render_stop_element
PartGroupElement(type) == [tag |-> "part-group", type |-> type, id |-> "", part_name |-> ""]

\* render_part_list_entry of a Part or PartGroup among the contents of a score
RenderPartListEntry(objects, content) ==
    LET entries == [k \in 1..Len(content.parts) |->
                       PartRenderPartListEntry(objects[content.parts[k]])]
    IN  IF content.cls = "PartGroup"
        THEN <<PartGroupElement("start")>> \o entries \o <<PartGroupElement("stop")>>
        ELSE entries

\* render of a Part or PartGroup among the contents of a score
ContentRender(objects, content) ==
    [k \in 1..Len(content.parts) |-> PartRender(objects[content.parts[k]])]

\* the score element: the children of part-list, and the part elements
ScoreElement(objects, contents) ==
    [rendered |-> TRUE,
     part_list |-> Concat([i \in 1..Len(contents) |-> RenderPartListEntry(objects, contents[i])]),
     parts |-> Concat([i \in 1..Len(contents) |-> ContentRender(objects, contents[i])])]

\* a reference no Part object of the score has
NewRef == CHOOSE r \in 1..MaxParts :
             /\ r \notin DOMAIN part_objects
             /\ \A q \in 1..(r - 1) : q \in DOMAIN part_objects

\* the Part objects with a new one made
WithNew(part) ==
    [r \in DOMAIN part_objects \cup {NewRef} |->
        IF r = NewRef THEN part ELSE part_objects[r]]

\* the Part objects without those no longer in the score
Without(refs) == [r \in DOMAIN part_objects \ refs |-> part_objects[r]]

\* list.insert(i, o), i from 0 to the length
ListInsert(s, i, o) == SubSeq(s, 1, i) \o <<o>> \o SubSeq(s, i + 1, Len(s))

\* s[i], s[i + 1] = s[i + 1], s[i] on a list, i counted from 1
ListSwap(s, i) ==
    [k \in 1..Len(s) |-> IF k = i THEN s[i + 1] ELSE IF k = i + 1 THEN s[i] ELSE s[k]]

\* the number of measures in the Part objects of the score
NumMeasures == SeqSum([k \in 1..MaxParts |->
                  IF k \in DOMAIN part_objects THEN Len(part_objects[k].measures) ELSE 0])

\* the most Parts and PartGroups among the contents of a score
MaxContents == MaxParts + MaxPartGroups

\* Score()
ScoreStart ==
    /\ MeasureIdle
    /\ SlurIdle
    /\ DurationIdle
    /\ GroupIdle
    /\ ChordIdle
    /\ ScoreIdle
    /\ ContainerIdle
    /\ IterIdle
    /\ NoteIdle

\* score.insert(pos, Part(name, measures, part_id))
ScoreInsertPart(pos, measures, part_id) ==
    /\ Cardinality(DOMAIN part_objects) < MaxParts
    /\ NumMeasures + Len(measures) <= MaxMeasures
    /\ pos \in 0..Len(score)
    /\ part_objects' = WithNew(Part(ToString(NewRef), measures, part_id))
    /\ score' = ListInsert(score, pos, PartContent(NewRef))
    /\ score_xml' = NotRendered
    /\ UNCHANGED notScoreVars

\* score.insert(pos, PartGroup())
ScoreInsertPartGroup(pos) ==
    /\ Cardinality({g \in 1..Len(score) : score[g].cls = "PartGroup"}) < MaxPartGroups
    /\ pos \in 0..Len(score)
    /\ score' = ListInsert(score, pos, PartGroup(<<>>))
    /\ score_xml' = NotRendered
    /\ UNCHANGED <<part_objects, notScoreVars>>

\* part_group.insert(pos, Part(name, measures, part_id)), the group the g-th of the score
PartGroupInsert(g, pos, measures, part_id) ==
    /\ Cardinality(DOMAIN part_objects) < MaxParts
    /\ g \in 1..Len(score)
    /\ score[g].cls = "PartGroup"
    /\ NumMeasures + Len(measures) <= MaxMeasures
    /\ pos \in 0..Len(score[g].parts)
    /\ part_objects' = WithNew(Part(ToString(NewRef), measures, part_id))
    /\ score' = [score EXCEPT ![g].parts = ListInsert(@, pos, NewRef)]
    /\ score_xml' = NotRendered
    /\ UNCHANGED notScoreVars

\* del score[i]: a Part, or a PartGroup with its Parts
ScoreDelete(i) ==
    /\ i \in 1..Len(score)
    /\ score' = RemoveAt(score, i)
    /\ part_objects' = Without(Range(score[i].parts))
    /\ score_xml' = NotRendered
    /\ UNCHANGED notScoreVars

\* del part_group[i], the group the g-th of the score
PartGroupDelete(g, i) ==
    /\ g \in 1..Len(score)
    /\ score[g].cls = "PartGroup"
    /\ i \in 1..Len(score[g].parts)
    /\ score' = [score EXCEPT ![g].parts = RemoveAt(@, i)]
    /\ part_objects' = Without({score[g].parts[i]})
    /\ score_xml' = NotRendered
    /\ UNCHANGED notScoreVars

\* score.contents reordered: two neighbours change places
ScoreReorder(i) ==
    /\ i \in 1..(Len(score) - 1)
    /\ score' = ListSwap(score, i)
    /\ score_xml' = NotRendered
    /\ UNCHANGED <<part_objects, notScoreVars>>

\* part_group.contents reordered: two neighbours change places
PartGroupReorder(g, i) ==
    /\ g \in 1..Len(score)
    /\ score[g].cls = "PartGroup"
    /\ i \in 1..(Len(score[g].parts) - 1)
    /\ score' = [score EXCEPT ![g].parts = ListSwap(@, i)]
    /\ score_xml' = NotRendered
    /\ UNCHANGED <<part_objects, notScoreVars>>

\* part.insert(pos, measure)
PartInsertMeasure(ref, pos, measure) ==
    /\ ref \in DOMAIN part_objects
    /\ NumMeasures < MaxMeasures
    /\ pos \in 0..Len(part_objects[ref].measures)
    /\ part_objects' = [part_objects EXCEPT ![ref].measures = ListInsert(@, pos, measure)]
    /\ score_xml' = NotRendered
    /\ UNCHANGED <<score, notScoreVars>>

\* del part[i]
PartDeleteMeasure(ref, i) ==
    /\ ref \in DOMAIN part_objects
    /\ i \in 1..Len(part_objects[ref].measures)
    /\ part_objects' = [part_objects EXCEPT ![ref].measures = RemoveAt(@, i)]
    /\ score_xml' = NotRendered
    /\ UNCHANGED <<score, notScoreVars>>

\* part.contents reordered: two neighbours change places
PartReorderMeasures(ref, i) ==
    /\ ref \in DOMAIN part_objects
    /\ i \in 1..(Len(part_objects[ref].measures) - 1)
    /\ part_objects' = [part_objects EXCEPT ![ref].measures = ListSwap(@, i)]
    /\ score_xml' = NotRendered
    /\ UNCHANGED <<score, notScoreVars>>

\* score.render(): the parts are numbered, then the contents rendered in turn
ScoreRender ==
    /\ \E numbered \in {SetPartNumbers(part_objects, ScoreParts(score), 1)} :
          /\ part_objects' = numbered
          /\ score_xml' = ScoreElement(numbered, score)
    /\ UNCHANGED <<score, notScoreVars>>

ScoreNext ==
    \/ \E pos \in 0..MaxContents, measures \in SeqsUpTo(PartMeasureMenu, 1), part_id \in PartIdMenu :
          ScoreInsertPart(pos, measures, part_id)
    \/ \E pos \in 0..MaxContents : ScoreInsertPartGroup(pos)
    \/ \E g \in 1..MaxContents, pos \in 0..MaxParts, measures \in SeqsUpTo(PartMeasureMenu, 1),
          part_id \in PartIdMenu :
          PartGroupInsert(g, pos, measures, part_id)
    \/ \E i \in 1..MaxContents : ScoreDelete(i)
    \/ \E g \in 1..MaxContents, i \in 1..MaxParts : PartGroupDelete(g, i)
    \/ \E i \in 1..MaxContents : ScoreReorder(i)
    \/ \E g \in 1..MaxContents, i \in 1..MaxParts : PartGroupReorder(g, i)
    \/ \E ref \in 1..MaxParts, pos \in 0..MaxMeasures, measure \in PartMeasureMenu :
          PartInsertMeasure(ref, pos, measure)
    \/ \E ref \in 1..MaxParts, i \in 1..MaxMeasures : PartDeleteMeasure(ref, i)
    \/ \E ref \in 1..MaxParts, i \in 1..MaxMeasures : PartReorderMeasures(ref, i)
    \/ ScoreRender

SpecScore == ScoreStart /\ [][ScoreNext]_vars

-----------------------------------------------------------------------------
(* MusicXMLContainer: the type check of the constructor and of the         *)
(* MutableSequence methods; objects are held as the names of their classes *)

\* the containers of the library
ContainerClasses == {"BeamedGroup", "Tuplet", "Measure", "Part", "PartGroup", "Score"}

\* the classes of the objects a caller hands to a container
ObjectMenu == {"Note", "Tuplet", "Measure", "Part", "PartGroup"}

\* allowed_types as each constructor passes it to MusicXMLContainer.__init__
AllowedTypes(cls) ==
    CASE cls \in {"BeamedGroup", "Tuplet"} -> {"Note", "Chord", "Rest"}
      [] cls = "Measure" -> {"Note", "Rest", "Chord", "BarRest", "BeamedGroup", "Tuplet",
                             "NoneType", "Sequence"}
      [] cls = "Part" -> {"Measure"}
      [] cls = "PartGroup" -> {"Part"}
      [] cls = "Score" -> {"Part", "PartGroup"}

\* the class of an object and the library classes it derives from
ClassesOf(o) ==
    CASE o = "Tuplet" -> {"Tuplet", "BeamedGroup"}
      [] o = "GraceNote" -> {"GraceNote", "Note"}
      [] o = "GraceChord" -> {"GraceChord", "Chord"}
      [] OTHER -> {o}

\* isinstance(o, allowed_types)
IsInstance(o, allowed_types) == ClassesOf(o) \cap allowed_types # {}

\* MusicXMLContainer.__init__: ValueError unless all contents are of allowed types
MusicXMLContainerInit(cls, contents) ==
    IF \A k \in 1..Len(contents) : IsInstance(contents[k], AllowedTypes(cls))
    THEN [raised |-> FALSE, container |-> [made |-> TRUE, cls |-> cls, contents |-> contents]]
    ELSE [raised |-> TRUE, container |-> NoContainer]

\* MusicXMLContainer.insert(i, o): ValueError unless o is of an allowed type
MusicXMLContainerInsert(c, i, o) ==
    IF ~IsInstance(o, AllowedTypes(c.cls))
    THEN [raised |-> TRUE, container |-> c]
    ELSE [raised |-> FALSE, container |-> [c EXCEPT !.contents = ListInsert(@, i, o)]]

\* MutableSequence.append(value): self.insert(len(self), value)
MutableSequenceAppend(c, value) == MusicXMLContainerInsert(c, Len(c.contents), value)

\* MutableSequence.extend(values): for v in values: self.append(v)
RECURSIVE MutableSequenceExtend(_, _)
MutableSequenceExtend(c, values) ==
    IF values = <<>> THEN [raised |-> FALSE, container |-> c]
    ELSE LET appended == MutableSequenceAppend(c, Head(values))
         IN  IF appended.raised THEN appended
             ELSE MutableSequenceExtend(appended.container, Tail(values))

\* MusicXMLContainer.__setitem__(i, o): self.contents.__setitem__(i, o), i from 0
MusicXMLContainerSetItem(c, i, o) ==
    [raised |-> FALSE, container |-> [c EXCEPT !.contents[i + 1] = o]]

\* MusicXMLContainer.__delitem__(i): self.contents.__delitem__(i), i from 0
MusicXMLContainerDelItem(c, i) ==
    [raised |-> FALSE, container |-> [c EXCEPT !.contents = RemoveAt(@, i + 1)]]

\* no container yet
ContainerStart ==
    /\ MeasureIdle
    /\ SlurIdle
    /\ DurationIdle
    /\ GroupIdle
    /\ ChordIdle
    /\ ScoreIdle
    /\ ContainerIdle
    /\ IterIdle
    /\ NoteIdle

\* cls(contents)
Construct(cls, contents) ==
    /\ ~container.made
    /\ \E r \in {MusicXMLContainerInit(cls, contents)} :
          /\ container' = r.container
          /\ last_call' = Call("__init__", contents, r.raised)
    /\ UNCHANGED notContainerVars

\* container.insert(i, o)
CallInsert(i, o) ==
    /\ container.made
    /\ Len(container.contents) < MaxContainerLen
    /\ i \in 0..Len(container.contents)
    /\ \E r \in {MusicXMLContainerInsert(container, i, o)} :
          /\ container' = r.container
          /\ last_call' = Call("insert", <<o>>, r.raised)
    /\ UNCHANGED notContainerVars

\* container.append(o)
CallAppend(o) ==
    /\ container.made
    /\ Len(container.contents) < MaxContainerLen
    /\ \E r \in {MutableSequenceAppend(container, o)} :
          /\ container' = r.container
          /\ last_call' = Call("append", <<o>>, r.raised)
    /\ UNCHANGED notContainerVars

\* container.extend(values)
CallExtend(values) ==
    /\ container.made
    /\ Len(container.contents) + Len(values) <= MaxContainerLen
    /\ \E r \in {MutableSequenceExtend(container, values)} :
          /\ container' = r.container
          /\ last_call' = Call("extend", values, r.raised)
    /\ UNCHANGED notContainerVars

\* container[i] = o
CallSetItem(i, o) ==
    /\ container.made
    /\ i \in 0..(Len(container.contents) - 1)
    /\ \E r \in {MusicXMLContainerSetItem(container, i, o)} :
          /\ container' = r.container
          /\ last_call' = Call("__setitem__", <<o>>, r.raised)
    /\ UNCHANGED notContainerVars

\* del container[i]
CallDelItem(i) ==
    /\ container.made
    /\ i \in 0..(Len(container.contents) - 1)
    /\ \E r \in {MusicXMLContainerDelItem(container, i)} :
          /\ container' = r.container
          /\ last_call' = Call("__delitem__", <<>>, r.raised)
    /\ UNCHANGED notContainerVars

ContainerNext ==
    \/ \E cls \in ContainerClasses, contents \in SeqsUpTo(ObjectMenu, 2) :
          Construct(cls, contents)
    \/ \E i \in 0..MaxContainerLen, o \in ObjectMenu : CallInsert(i, o)
    \/ \E o \in ObjectMenu : CallAppend(o)
    \/ \E values \in SeqsUpTo(ObjectMenu, 2) : CallExtend(values)
    \/ \E i \in 0..MaxContainerLen, o \in ObjectMenu : CallSetItem(i, o)
    \/ \E i \in 0..MaxContainerLen : CallDelItem(i)

SpecContainer == ContainerStart /\ [][ContainerNext]_vars

-----------------------------------------------------------------------------
(* Measure.iter_leaves called by itself *)

\* the elements of the measures it is called on: leaves, a tuplet, an empty group
IterElementMenu ==
    {LeafElement(QuarterNote), LeafElement(DottedEighthChord), LeafElement(GraceEighth),
     EighthTriplet, BeamedGroup(<<>>)}

\* a voice: None, or a list of at most budget elements, the empty list too
IterVoiceMenu(budget) ==
    {NoneVoice} \cup
    {[none |-> FALSE, contents |-> c] : c \in SeqsUpTo(IterElementMenu, budget)}

\* the tuples of n voices that hold at most budget elements together
RECURSIVE IterVoiceTuples(_, _)
IterVoiceTuples(n, budget) ==
    IF n = 0 THEN {<<>>}
    ELSE UNION {{<<v>> \o rest : rest \in IterVoiceTuples(n - 1, budget - Len(v.contents))} :
                   v \in IterVoiceMenu(budget)}

\* voice_list_copy[k][0] of an empty list: IndexError before any leaf is yielded
IterLeavesRaisesFor(vs, which_voices) ==
    \E k \in 1..Len(VoiceListCopy(vs, which_voices)) :
        VoiceListCopy(vs, which_voices)[k] = <<>>

\* Measure(contents) and the which_voices to ask for; None asks for all voices
IterStart ==
    /\ voices \in UNION {IterVoiceTuples(n, MaxElements) : n \in 1..MaxVoices}
    /\ directions_with_displacements = <<>>
    /\ barline = FALSE
    /\ out = <<>>
    /\ renders = 0
    /\ inserts = 0
    /\ SlurIdle
    /\ DurationIdle
    /\ GroupIdle
    /\ ChordIdle
    /\ ScoreIdle
    /\ ContainerIdle
    /\ asked_voices \in SUBSET (1..Len(voices))
    /\ yielded = NotIterated
    /\ NoteIdle

\* list(measure.iter_leaves(which_voices))
CallIterLeaves ==
    /\ ~yielded.called
    /\ yielded' = IF IterLeavesRaisesFor(voices, asked_voices)
                  THEN [called |-> TRUE, raised |-> TRUE, leaves |-> <<>>]
                  ELSE [called |-> TRUE, raised |-> FALSE,
                        leaves |-> IterLeaves(voices, asked_voices)]
    /\ UNCHANGED <<asked_voices, notIterVars>>

IterNext == CallIterLeaves

SpecIter == IterStart /\ [][IterNext]_vars

-----------------------------------------------------------------------------
(* _XMLNote.render: the note element of a Note or Rest, as its children in  *)
(* order; notations and articulations are held as their tag names           *)

MaxNoteRenders == 2

\* an element by its tag and the tags of its children
Element(tag, children) == [tag |-> tag, children |-> children]

\* _XMLNote.__init__; the voice 0 stands for None
NoteObject(pitch, ties, notations, articulations, grace, is_chord_member, voice) ==
    [made |-> TRUE, pitch |-> pitch, ties |-> ties, notations |-> notations,
     articulations |-> articulations, tuplet_bracket |-> "None", beams |-> <<>>,
     is_grace |-> grace, is_chord_member |-> is_chord_member, voice |-> voice]

\* the tie or tied elements of a value of ties
TieElements(tag, ties) ==
    (IF ties \in {"start", "continue"} THEN <<tag \o " start">> ELSE <<>>)
    \o (IF ties \in {"stop", "continue"} THEN <<tag \o " stop">> ELSE <<>>)

\* the notations list of the note once render has appended the tied elements to it
NotationsAppended(n) ==
    IF n.pitch # "None" THEN n.notations \o TieElements("tied", n.ties) ELSE n.notations

\* the children of the notations element
NotationsElement(n, notations) ==
    notations
    \o (IF n.tuplet_bracket \in {"start", "both"} THEN <<"tuplet start">> ELSE <<>>)
    \o (IF n.tuplet_bracket \in {"stop", "both"} THEN <<"tuplet stop">> ELSE <<>>)
    \o (IF Len(n.articulations) > 0 THEN <<"articulations">> ELSE <<>>)

\* _XMLNote.render of a note that is no bar rest: the note after the call and the note
\* element it returned
XMLNoteRender(n) ==
    LET notations == NotationsAppended(n)
        head == (IF n.is_grace THEN <<Element("grace", <<>>)>> ELSE <<>>)
                \o (IF n.pitch = "None"
                    THEN <<Element("rest", <<>>)>>
                    ELSE (IF n.is_chord_member THEN <<Element("chord", <<>>)>> ELSE <<>>)
                         \o <<Element("pitch", <<n.pitch>>)>>)
                \o (IF ~n.is_grace THEN <<Element("duration", <<>>)>> ELSE <<>>)
                \o [k \in 1..Len(TieElements("tie", n.ties)) |->
                      Element(TieElements("tie", n.ties)[k], <<>>)]
                \o (IF n.voice # 0 THEN <<Element("voice", <<ToString(n.voice)>>)>> ELSE <<>>)
                \o <<Element("type", <<>>)>>
        beams == IF n.pitch # "None"
                 THEN [d \in 1..Len(n.beams) |-> Element("beam", <<ToString(d), n.beams[d]>>)]
                 ELSE <<>>
        tail == IF Len(notations) + Len(n.articulations) > 0 \/ n.tuplet_bracket # "None"
                THEN <<Element("notations", NotationsElement(n, notations))>>
                ELSE <<>>
    IN  [note |-> [n EXCEPT !.notations = notations],
         element |-> head \o beams \o tail]

\* Note(...) or Rest(...): a rest has no ties, is no grace note and no chord member
NoteStart ==
    /\ MeasureIdle
    /\ SlurIdle
    /\ DurationIdle
    /\ GroupIdle
    /\ ChordIdle
    /\ ScoreIdle
    /\ ContainerIdle
    /\ IterIdle
    /\ \E pitch \in {"c4", "None"}, ties \in {"None", "start", "stop", "continue"},
          notations \in {<<>>, <<"fermata">>}, articulations \in {<<>>, <<"staccato">>},
          grace \in BOOLEAN, is_chord_member \in BOOLEAN, voice \in {0, 1} :
          /\ pitch = "None" => ties = "None" /\ ~grace /\ ~is_chord_member
          /\ note = NoteObject(pitch, ties, notations, articulations, grace,
                               is_chord_member, voice)
    /\ note_xml = <<>>

\* note.render()
NoteRender ==
    /\ Len(note_xml) < MaxNoteRenders
    /\ \E r \in {XMLNoteRender(note)} :
          /\ note' = r.note
          /\ note_xml' = Append(note_xml, r.element)
    /\ UNCHANGED notNoteVars

\* the note is stamped by the Tuplet that holds it
NoteSetTupletBracket(value) ==
    /\ note.tuplet_bracket = "None"
    /\ note_xml = <<>>
    /\ note' = [note EXCEPT !.tuplet_bracket = value]
    /\ UNCHANGED note_xml
    /\ UNCHANGED notNoteVars

NoteNext ==
    \/ NoteRender
    \/ \E value \in {"start", "stop", "both"} : NoteSetTupletBracket(value)

SpecNote == NoteStart /\ [][NoteNext]_vars

-----------------------------------------------------------------------------
(* What a decomposed length is read for *)

\* x is the length of note type number k with d dots, by cross multiplication
IsNoteTypeWithDots(x, k, d) ==
    x[1] * NoteTypeToLength[NoteTypes[k]][2] * Pow2(d) =
        x[2] * NoteTypeToLength[NoteTypes[k]][1] * (Pow2(d + 1) - 1)

\* x is a note value of the ladder with at most m dots
Representable(x, m) ==
    \E k \in 1..Len(NoteTypes) : \E d \in 0..m : IsNoteTypeWithDots(x, k, d)

\* the number of the note type in the ladder
NoteTypeIndex(note_type) == CHOOSE k \in 1..Len(NoteTypes) : NoteTypes[k] = note_type

\* C12: for every length that is a note value of the ladder (breve to 1024th)
\* with 0 to 4 dots, get_note_type_and_number_of_dots(L) returns a note type and
\* a number of dots whose written length is L exactly, and 0 dots when L is
\* itself a note value of the ladder.
C12_DecomposeRoundTrip ==
    (/\ returned.call = "get_note_type_and_number_of_dots"
     /\ max_dots_allowed = DefaultMaxDotsAllowed
     /\ Representable(quarter_length, 4)) =>
        /\ ~returned.raised
        /\ IsNoteTypeWithDots(quarter_length, NoteTypeIndex(returned.note_type),
                              returned.num_dots)
        /\ Representable(quarter_length, 0) => returned.num_dots = 0

\* C12 witness: 31/32 of a quarter note came back as an eighth with four dots
C12_Witness ==
    /\ quarter_length = <<31, 32>>
    /\ max_dots_allowed = DefaultMaxDotsAllowed
    /\ returned = Returns("get_note_type_and_number_of_dots", "eighth", 4)

\* C13: get_note_type_and_number_of_dots(L, m), from_written_length and the
\* construction of a Note or Rest from a number raise ValueError exactly when L
\* is no note value of the ladder with 0 to m dots, and a returned number of
\* dots is at most m.
C13_RaisesIffUnrepresentable ==
    returned.call # "none" =>
        /\ returned.raised <=> ~Representable(quarter_length, max_dots_allowed)
        /\ ~returned.raised => returned.num_dots <= max_dots_allowed

-----------------------------------------------------------------------------
(* What the lengths, brackets and beams of a group are read for *)

GroupLeaves == 1..Len(group.contents)

\* the fraction x is num / den of the fraction y, by cross multiplication
IsShareOf(x, num, den, y) == x[1] * y[2] * den = y[1] * num * x[2]

\* written_length = base_length(note_type) * (2^(dots+1) - 1) / 2^dots
WrittenLengthAsClaimed(d) ==
    IsShareOf(DurationWrittenLength(d), Pow2(d.num_dots + 1) - 1, Pow2(d.num_dots),
              NoteTypeToLength[d.note_type])

\* true_length = written_length * normal / actual with a ratio, written_length without
TrueLengthAsClaimed(d) ==
    IF d.tuplet_ratio = NoRatio
    THEN DurationTrueLength(d) = DurationWrittenLength(d)
    ELSE IsShareOf(DurationTrueLength(d), d.tuplet_ratio[2], d.tuplet_ratio[1],
                   DurationWrittenLength(d))

\* the group is a Tuplet of the ratio whose leaves all carry that ratio
TaggedTuplet(ratio) ==
    /\ group.cls = "Tuplet"
    /\ group.ratio = ratio
    /\ \A k \in GroupLeaves : group.contents[k].duration.tuplet_ratio = ratio

\* C14 as claimed: every Duration has written_length = base_length * (2^(dots+1)
\* - 1) / 2^dots and true_length = written_length * normal / actual under a ratio
\* (written_length without one); every leaf of a Tuplet of ratio (3, 2) has
\* true_length = written_length * 2/3, and the min_denominator() of the Tuplet
\* is divisible by 3.
C14_LengthsAndTripletDenominator ==
    /\ \A k \in GroupLeaves :
          /\ WrittenLengthAsClaimed(group.contents[k].duration)
          /\ TrueLengthAsClaimed(group.contents[k].duration)
    /\ TaggedTuplet(<<3, 2>>) =>
          /\ \A k \in GroupLeaves :
                IsShareOf(TrueLength(group.contents[k]), 2, 3, WrittenLength(group.contents[k]))
          /\ queried.op = "min_denominator" => queried.value[1] % 3 = 0

\* the leaves whose length counts in the measure and whose dots leave the 3 in the denominator
LeavesKeepingThree ==
    {k \in GroupLeaves :
        /\ ~group.contents[k].is_grace
        /\ (Pow2(group.contents[k].duration.num_dots + 1) - 1) % 3 # 0}

\* C14 amended: the two length formulas hold of every Duration; in a Tuplet of
\* ratio (3, 2) whose leaves carry the ratio, every leaf that is not a grace note
\* has true_length = written_length * 2/3 and a grace note has true_length 0;
\* min_denominator() is divisible by 3 exactly when some leaf that is not a grace
\* note has 0, 2 or 4 dots (a leaf with 1 or 3 dots has 2^(dots+1) - 1 divisible
\* by 3, which cancels the 3 of the ratio).
C14_LengthsAndTripletDenominatorUnlessCancelled ==
    /\ \A k \in GroupLeaves :
          /\ WrittenLengthAsClaimed(group.contents[k].duration)
          /\ TrueLengthAsClaimed(group.contents[k].duration)
    /\ TaggedTuplet(<<3, 2>>) =>
          /\ \A k \in GroupLeaves :
                IF group.contents[k].is_grace
                THEN TrueLength(group.contents[k]) = <<0, 1>>
                ELSE IsShareOf(TrueLength(group.contents[k]), 2, 3,
                               WrittenLength(group.contents[k]))
          /\ queried.op = "min_denominator" =>
                (queried.value[1] % 3 = 0 <=> LeavesKeepingThree # {})

\* C14 witness: the triplet of two dotted eighth chords, each half a quarter
\* long, answered min_denominator() with 2
C14_Witness ==
    /\ TaggedTuplet(<<3, 2>>)
    /\ Len(group.contents) = 2
    /\ \A k \in GroupLeaves :
          /\ group.contents[k].duration.num_dots = 1
          /\ TrueLength(group.contents[k]) = <<1, 2>>
    /\ queried = Queried("min_denominator", <<2, 1>>)

\* the step asked the group for a length or rendered it
LengthQueried == queried'.op \in {"true_length", "length_in_divisions", "min_denominator", "render"}

\* C15: on a Tuplet, whatever was inserted or appended since its construction,
\* every query of true_length, length_in_divisions and min_denominator() and
\* every render first sets the ratio of the Tuplet on the Duration of every leaf,
\* so the value returned is the one computed with the ratio on every leaf.
C15_QueriesRestamp ==
    [][(group.cls = "Tuplet" /\ LengthQueried) =>
          LET stamped == SetTupletInfoForContents(group, group.ratio)
          IN  /\ \A k \in 1..Len(group'.contents) :
                    group'.contents[k].duration.tuplet_ratio = group.ratio
              /\ queried'.op = "true_length" =>
                    queried'.value = ElementTrueLength(stamped)
              /\ queried'.op = "length_in_divisions" =>
                    queried'.value = <<ElementLengthInDivisions(stamped), 1>>
              /\ queried'.op = "min_denominator" =>
                    queried'.value = <<BeamedGroupMinDenominator(stamped), 1>>
    ]_vars

\* the ratio has just been set on the contents of the Tuplet
JustStamped ==
    /\ group.cls = "Tuplet"
    /\ queried.op \in {"__init__", "min_denominator", "render"}

\* C16: once the ratio has been set on the contents of a Tuplet (construction,
\* min_denominator(), render), the first leaf has tuplet_bracket "start" and the
\* last has "stop", and the only leaf of a Tuplet of one leaf has "both".
C16_BracketPlacement ==
    JustStamped =>
        IF Len(group.contents) = 1
        THEN group.contents[1].tuplet_bracket = "both"
        ELSE /\ group.contents[1].tuplet_bracket = "start"
             /\ group.contents[Len(group.contents)].tuplet_bracket = "stop"

\* the group has just been beamed
JustBeamed == queried.op \in {"render_contents_beaming", "render"}

\* leaf k exists and its note value takes at least d beams
ActiveAt(k, d) == k \in GroupLeaves /\ NumBeams(group.contents[k]) >= d

\* the largest number of beams of a leaf of the group
MaxBeamCount == Max({NumBeams(group.contents[k]) : k \in GroupLeaves})

\* C18: after render_contents_beaming on a sequence of Notes and Chords, at
\* every level d from 1 to the largest beam count, a leaf active at d has
\* "continue" when both its neighbours are active at d, "end" when only the one
\* before is, "begin" when only the one after is, and a leaf not active at d has
\* no state at d; four eighth notes have begin, continue, continue, end at level 1.
C18_BeamStates ==
    (/\ JustBeamed
     /\ \A k \in GroupLeaves : group.contents[k].kind \in {"Note", "Chord"}) =>
        \A k \in GroupLeaves : \A d \in 1..MaxBeamCount :
           LET beams == group.contents[k].beams
           IN  IF ActiveAt(k, d)
               THEN /\ (ActiveAt(k - 1, d) /\ ActiveAt(k + 1, d)) =>
                          (d \in DOMAIN beams /\ beams[d] = "continue")
                    /\ (ActiveAt(k - 1, d) /\ ~ActiveAt(k + 1, d)) =>
                          (d \in DOMAIN beams /\ beams[d] = "end")
                    /\ (~ActiveAt(k - 1, d) /\ ActiveAt(k + 1, d)) =>
                          (d \in DOMAIN beams /\ beams[d] = "begin")
               ELSE d \notin DOMAIN beams

\* C18 witness: four eighth notes beamed begin, continue, continue, end at level 1
C18_Witness ==
    /\ JustBeamed
    /\ Len(group.contents) = 4
    /\ \A k \in GroupLeaves :
          /\ group.contents[k].duration.note_type = "eighth"
          /\ group.contents[k].duration.num_dots = 0
          /\ ~group.contents[k].is_grace
    /\ [k \in GroupLeaves |-> group.contents[k].beams] =
          <<(1 :> "begin"), (1 :> "continue"), (1 :> "continue"), (1 :> "end")>>

\* the beam-state map of every leaf
BeamMaps(el) == [k \in 1..Len(el.contents) |-> el.contents[k].beams]

\* C19: render_contents_beaming run again on a group whose contents were not
\* modified leaves every leaf the beam-state map that the first run left.
C19_BeamingIdempotent ==
    [][queried'.op = "render_contents_beaming" =>
          /\ BeamMaps(RenderContentsBeaming(group')) = BeamMaps(group')
          /\ JustBeamed => BeamMaps(group') = BeamMaps(group)
    ]_vars

\* C19 witness: a group was beamed a second time; a sixteenth between two
\* eighths has continue at level 1 and a hook at level 2, and a lone quarter
\* before them has no beams
C19_Witness ==
    /\ queried = Queried("render_contents_beaming", <<2, 1>>)
    /\ Len(group.contents) = 4
    /\ group.contents[1].beams = <<>>
    /\ group.contents[3].beams = (1 :> "continue" @@ 2 :> "backward hook")

-----------------------------------------------------------------------------
(* What the member notes of a chord are read for *)

Members == 1..Len(chord.notes)

\* note.divisions of member m: the divisions of its duration
MemberDivisions(m) == chord.duration.divisions

\* C17 as claimed: a value set on a Chord for divisions, voice, beams,
\* tuplet_bracket or (one value) ties is written to every member note, so every
\* member holds what the first member holds for each of these attributes.
C17_WriteThroughAll ==
    /\ \A m \in Members :
          /\ MemberDivisions(m) = MemberDivisions(1)
          /\ chord.notes[m].voice = chord.notes[1].voice
          /\ chord.notes[m].beams = chord.notes[1].beams
          /\ chord.notes[m].tuplet_bracket = chord.notes[1].tuplet_bracket
    /\ last_set.attribute = "divisions" => \A m \in Members : MemberDivisions(m) = last_set.value
    /\ last_set.attribute = "voice" => \A m \in Members : chord.notes[m].voice = last_set.value
    /\ last_set.attribute = "beams" => \A m \in Members : chord.notes[m].beams = last_set.value
    /\ last_set.attribute = "tuplet_bracket" =>
          \A m \in Members : chord.notes[m].tuplet_bracket = last_set.value
    /\ last_set.attribute = "ties" => \A m \in Members : chord.notes[m].ties = last_set.value

\* C17 amended: divisions, voice and one tie value are written to every member
\* note, so the members agree with the first on divisions and voice, and on the
\* ties once one value was set; beams and tuplet_bracket are written to the first
\* member only, the one the getters of the Chord read, and the other members
\* keep the empty beams and the tuplet_bracket None they were made with.
C17_WriteThroughButBeamsAndBracket ==
    /\ \A m \in Members :
          /\ MemberDivisions(m) = MemberDivisions(1)
          /\ chord.notes[m].voice = chord.notes[1].voice
          /\ m > 1 => /\ chord.notes[m].beams = <<>>
                      /\ chord.notes[m].tuplet_bracket = "None"
    /\ last_set.attribute = "divisions" => \A m \in Members : MemberDivisions(m) = last_set.value
    /\ last_set.attribute = "voice" => \A m \in Members : chord.notes[m].voice = last_set.value
    /\ last_set.attribute = "beams" => chord.notes[1].beams = last_set.value
    /\ last_set.attribute = "tuplet_bracket" => chord.notes[1].tuplet_bracket = last_set.value
    /\ last_set.attribute = "ties" => \A m \in Members : chord.notes[m].ties = last_set.value

\* C17 witness: a chord of three notes in voice 2 with beams was given the
\* tuplet_bracket "start": the first note has it, the others have None and no beams
C17_Witness ==
    /\ Len(chord.notes) = 3
    /\ last_set.attribute = "tuplet_bracket"
    /\ last_set.value = "start"
    /\ chord.notes[1].tuplet_bracket = "start"
    /\ chord.notes[1].beams = <<"begin">>
    /\ \A m \in 2..3 : chord.notes[m].tuplet_bracket = "None" /\ chord.notes[m].beams = <<>>
    /\ \A m \in Members : chord.notes[m].voice = 2

-----------------------------------------------------------------------------
(* What the ids and numbers in a rendered score are read for *)

\* where the Parts of the score are: <<i, j>> is the j-th Part of the i-th content
PartPositions == {p \in (1..MaxContents) \X (1..MaxParts) :
                     p[1] <= Len(score) /\ p[2] <= Len(score[p[1]].parts)}

\* p comes before q in the document
Before(p, q) == p[1] < q[1] \/ (p[1] = q[1] /\ p[2] < q[2])

\* the place of the Part at p among the Parts in document order
DocumentRank(p) == 1 + Cardinality({q \in PartPositions : Before(q, p)})

\* the Part object at p
PartAt(p) == part_objects[score[p[1]].parts[p[2]]]

\* a child of part-list that stands for a Part
IsScorePart(entry) == entry.tag = "score-part"

\* the number of part-list children that the contents before the i-th gave
EntriesBefore(i) ==
    SeqSum([k \in 1..(i - 1) |->
               Len(score[k].parts) + (IF score[k].cls = "PartGroup" THEN 2 ELSE 0)])

\* C20: in the score element that Score.render returned, whatever the edits
\* made before and the part_id and number the Parts and Measures were made
\* with, the k-th part element has the id "Pk" and is the k-th Part of the
\* score in document order, part groups expanded in place; the k-th score-part
\* of the part-list has the same id and that Part's name, and lies between the
\* start and stop of its part group; and the measures of each part element are
\* the Part's measures in order, numbered 1..m.
C20_RenderTimeNumbering ==
    score_xml.rendered =>
        LET score_parts == SelectSeq(score_xml.part_list, IsScorePart)
        IN  /\ Len(score_xml.parts) = Cardinality(PartPositions)
            /\ Len(score_parts) = Cardinality(PartPositions)
            /\ \A p \in PartPositions :
                  LET k == DocumentRank(p)
                      element == score_xml.parts[k]
                  IN  /\ element.id = "P" \o ToString(k)
                      /\ score_parts[k].id = element.id
                      /\ score_parts[k].part_name = PartAt(p).part_name
                      /\ score_xml.part_list[EntriesBefore(p[1]) + p[2]
                            + (IF score[p[1]].cls = "PartGroup" THEN 1 ELSE 0)]
                            = score_parts[k]
                      /\ Len(element.measures) = Len(PartAt(p).measures)
                      /\ \A m \in 1..Len(element.measures) :
                            /\ element.measures[m].number = ToString(m)
                            /\ element.measures[m].contents = PartAt(p).measures[m].contents
            /\ \A i \in 1..Len(score) :
                  score[i].cls = "PartGroup" =>
                     /\ score_xml.part_list[EntriesBefore(i) + 1].type = "start"
                     /\ score_xml.part_list[EntriesBefore(i) + Len(score[i].parts) + 2].type
                           = "stop"

\* a rendered score of a Part, a PartGroup of one Part and a Part, the Part made
\* last standing first, and a Part whose two measures were made with the
\* numbers 5 and 1 in this order
C20_Witness ==
    /\ score_xml.rendered
    /\ Len(score) = 3
    /\ score[1].cls = "Part" /\ score[2].cls = "PartGroup" /\ score[3].cls = "Part"
    /\ Len(score[2].parts) = 1
    /\ PartAt(<<1, 1>>).part_name = "3"
    /\ \E p \in PartPositions :
          /\ Len(PartAt(p).measures) = 2
          /\ PartAt(p).measures[1].number = 5
          /\ PartAt(p).measures[2].number = 1
    /\ score_xml.parts[3].id = "P3"

-----------------------------------------------------------------------------
(* What the type check of a container is read for *)

\* every element of the contents is of an allowed type
AllOfAllowedTypes(c) ==
    c.made => \A k \in 1..Len(c.contents) : IsInstance(c.contents[k], AllowedTypes(c.cls))

\* the call just made was given an object that is not of an allowed type
GivenWrongType ==
    /\ last_call'.op \in {"insert", "append", "extend", "__setitem__"}
    /\ \E k \in 1..Len(last_call'.objects) :
          ~IsInstance(last_call'.objects[k], AllowedTypes(container.cls))

\* C21: a constructor given an object that is not of an allowed type raises
\* and makes no container; insert, append, extend and item assignment given
\* such an object raise and leave the contents as they were; and so, after
\* every call, every element of the contents is of an allowed type.
C21_TypeSafety ==
    [][/\ last_call'.op = "__init__" => (container'.made <=> ~last_call'.raised)
       /\ GivenWrongType => last_call'.raised /\ container'.contents = container.contents
       /\ AllOfAllowedTypes(container')]_vars

-----------------------------------------------------------------------------
(* What the order of the leaves of a measure is read for *)

\* the leaves of the selected populated voices, as references
SelectedLeaves ==
    {r \in (1..Len(voices)) \X (1..MaxElements) \X (1..MaxGroupLeaves) :
        /\ r[1] \in asked_voices
        /\ ~voices[r[1]].none
        /\ r[2] <= Len(voices[r[1]].contents)
        /\ r[3] <= Len(voices[r[1]].contents[r[2]].contents)}

\* r comes before s in the voice they are both in
EarlierInVoice(r, s) ==
    r[1] = s[1] /\ (r[2] < s[2] \/ (r[2] = s[2] /\ r[3] < s[3]))

\* the true_length of the leaves of the same voice that come before r, summed
RECURSIVE LengthBefore(_, _, _)
LengthBefore(r, j, k) ==
    IF j > r[2] \/ (j = r[2] /\ k >= r[3]) THEN <<0, 1>>
    ELSE IF k > Len(voices[r[1]].contents[j].contents) THEN LengthBefore(r, j + 1, 1)
    ELSE RAdd(TrueLength(LeafAt(voices, <<r[1], j, k>>)), LengthBefore(r, j, k + 1))

StartTime(r) == LengthBefore(r, 1, 1)

\* the place of the leaf r in what was yielded
YieldedAt(r) == CHOOSE p \in 1..Len(yielded.leaves) : yielded.leaves[p] = r

\* when r was yielded, s was the next leaf of another voice
WasNextOfOtherVoice(r, s) ==
    /\ r[1] # s[1]
    /\ YieldedAt(r) < YieldedAt(s)
    /\ \A t \in SelectedLeaves : EarlierInVoice(t, s) => YieldedAt(t) < YieldedAt(r)

\* what was yielded is every selected leaf once, each voice in its order, by
\* start time, and of two next leaves that start together the shorter first
YieldedInTimeOrder ==
    /\ ~yielded.raised
    /\ Len(yielded.leaves) = Cardinality(SelectedLeaves)
    /\ Range(yielded.leaves) = SelectedLeaves
    /\ \A r, s \in SelectedLeaves :
          /\ EarlierInVoice(r, s) => YieldedAt(r) < YieldedAt(s)
          /\ YieldedAt(r) < YieldedAt(s) => RLeq(StartTime(r), StartTime(s))
          /\ WasNextOfOtherVoice(r, s) /\ StartTime(r) = StartTime(s)
                => RLeq(TrueLength(LeafAt(voices, r)), TrueLength(LeafAt(voices, s)))

\* every populated voice holds at least one element
VoicesHoldElements ==
    \A i \in 1..Len(voices) : ~voices[i].none => Len(voices[i].contents) >= 1

\* every selected populated voice holds at least one leaf
SelectedVoicesHoldLeaves ==
    \A i \in asked_voices : ~voices[i].none => \E r \in SelectedLeaves : r[1] = i

\* C22 as stated: Measure.iter_leaves(which_voices), on a measure whose
\* populated voices each hold at least one element, ends without an error and
\* yields every leaf of every selected populated voice once and no other leaf,
\* each voice in its own order, in non-decreasing order of start time, and of
\* two voices' next leaves that start at the same time the shorter first.
C22_LeavesInTimeOrder ==
    yielded.called /\ VoicesHoldElements => YieldedInTimeOrder

\* C22 as it holds: the same, on a measure whose selected populated voices each
\* hold at least one leaf (a voice of empty groups holds elements and no leaf);
\* on any other measure the call raises IndexError before it yields a leaf.
C22_LeavesInTimeOrderGivenLeaves ==
    yielded.called =>
        IF SelectedVoicesHoldLeaves THEN YieldedInTimeOrder
        ELSE yielded.raised /\ yielded.leaves = <<>>

\* two of three populated voices asked for, and the first leaf yielded is the
\* shorter one of the second voice, which starts together with the first voice
C22_Witness ==
    /\ yielded.called
    /\ SelectedVoicesHoldLeaves
    /\ \E i \in 1..Len(voices) : ~voices[i].none /\ i \notin asked_voices
    /\ 1 \in asked_voices /\ ~voices[1].none
    /\ Len(yielded.leaves) >= 3
    /\ yielded.leaves[1][1] = 2
    /\ yielded.leaves[2][1] = 1

-----------------------------------------------------------------------------
(* What the render of a note leaves as it was *)

\* the step is a render of the note
NoteRenderStep == Len(note_xml') = Len(note_xml) + 1

\* C23: a render changes no notations list, articulations, ties or pitch of the leaf,
\* and a second render returns the same element sequence as the one before it
C23_RenderReadOnly ==
    [][NoteRenderStep =>
         /\ note'.notations = note.notations
         /\ note'.articulations = note.articulations
         /\ note'.ties = note.ties
         /\ note'.pitch = note.pitch
         /\ Len(note_xml) > 0 => note_xml'[Len(note_xml')] = note_xml[Len(note_xml)]]_vars

\* a tied note has been rendered twice
TiedRenderedTwice ==
    /\ note.made
    /\ note.pitch # "None"
    /\ note.ties # "None"
    /\ Len(note_xml) = 2

-----------------------------------------------------------------------------
(* What the beams of a note value are read for *)

\* the levels of beams that there are
BeamLevels == 1..8

\* leaf k exists and its note value requires at least d beams, whatever its kind
ValueActiveAt(k, d) ==
    k \in GroupLeaves /\ NoteTypeToNumBeams[group.contents[k].duration.note_type] >= d

\* leaf k exists, carries a pitch and its note value requires at least d beams
PitchedActiveAt(k, d) == ValueActiveAt(k, d) /\ group.contents[k].kind # "Rest"

\* after a beaming, the leaves that are active and have an active neighbour have the beam
\* states of a run of active leaves, and the leaves that are not active have no state
BeamStatesFollow(active(_, _)) ==
    JustBeamed =>
        \A k \in GroupLeaves : \A d \in BeamLevels :
           LET beams == group.contents[k].beams
           IN  /\ ~active(k, d) => d \notin DOMAIN beams
               /\ (active(k, d) /\ (active(k - 1, d) \/ active(k + 1, d))) =>
                     /\ d \in DOMAIN beams
                     /\ beams[d] = BeamValue(active(k - 1, d), active(k + 1, d), "none")

\* C24: a leaf of any kind, Note, Chord or Rest, is active at level d exactly when its
\* note value requires at least d beams (eighth 1, 16th 2, quarter and longer 0),
\* whether it carries a pitch or not
C24_ActiveByNoteValue == BeamStatesFollow(ValueActiveAt)

\* C24 as the program has it: a Note or Chord is active at level d exactly when its note
\* value requires at least d beams, and a Rest is active at no level
C24_ActiveByNoteValueUnlessRest == BeamStatesFollow(PitchedActiveAt)

\* C24 witness: an eighth rest between eighth notes was beamed; the rest has no beam
\* and ends the run before it
C24_Witness ==
    /\ JustBeamed
    /\ Len(group.contents) = 4
    /\ \A k \in GroupLeaves : group.contents[k].duration.note_type = "eighth"
    /\ [k \in GroupLeaves |-> group.contents[k].kind] = <<"Note", "Note", "Rest", "Note">>
    /\ BeamMaps(group) = <<(1 :> "begin"), (1 :> "end"), <<>>, <<>>>>

-----------------------------------------------------------------------------
(* What the start time of a lone beamed leaf is read for *)

\* the sum of the written lengths of the leaves before leaf k
StartInSequence(k) == RSum([j \in 1..(k - 1) |-> WrittenLength(group.contents[j])] \o <<>>)

\* the start of leaf k counted in its own undotted note value, a rational
PositionInOwnValue(k) ==
    RMul(StartInSequence(k), <<Pow2(NoteTypeToNumBeams[group.contents[k].duration.note_type]), 1>>)

\* leaf k is active at level d, neither neighbour is, and its beam states were not cleared
LoneAt(k, d) ==
    /\ ActiveAt(k, d)
    /\ ~ActiveAt(k - 1, d)
    /\ ~ActiveAt(k + 1, d)
    /\ group.contents[k].beams # <<>>

\* C25: a leaf active at level d whose neighbours are both inactive at d has "forward
\* hook" when its start time in the sequence (the sum of the written lengths of the
\* leaves before it) divided by its own undotted note value is an even integer, and
\* "backward hook" when it is an odd integer; a 16th after a dotted eighth (position 3)
\* has a backward hook at level 2, a 16th before a dotted eighth (position 0) a forward one.
C25_HookByPosition ==
    JustBeamed =>
        \A k \in GroupLeaves : \A d \in BeamLevels :
           (LoneAt(k, d) /\ PositionInOwnValue(k)[2] = 1) =>
              /\ d \in DOMAIN group.contents[k].beams
              /\ group.contents[k].beams[d] =
                    IF PositionInOwnValue(k)[1] % 2 = 0 THEN "forward hook" ELSE "backward hook"

\* C25 witness: a 16th, two dotted eighths and a 16th were beamed; the first 16th starts
\* at position 0 and has a forward hook at level 2, the last starts at position 7 and
\* has a backward hook
C25_Witness ==
    /\ JustBeamed
    /\ Len(group.contents) = 4
    /\ [k \in GroupLeaves |-> group.contents[k].duration.note_type] =
          <<"16th", "eighth", "eighth", "16th">>
    /\ [k \in GroupLeaves |-> group.contents[k].duration.num_dots] = <<0, 1, 1, 0>>
    /\ PositionInOwnValue(4) = <<7, 1>>
    /\ BeamMaps(group) = <<(1 :> "begin" @@ 2 :> "forward hook"), (1 :> "continue"),
                           (1 :> "continue"), (1 :> "end" @@ 2 :> "backward hook")>>

-----------------------------------------------------------------------------
(* What the clearing of the hooks is read for *)

\* leaf k is active at level d together with a neighbour: its state at d is begin,
\* continue or end
JoinedAt(k, d) == ActiveAt(k, d) /\ (ActiveAt(k - 1, d) \/ ActiveAt(k + 1, d))

\* C26: after render_contents_beaming no leaf has a beam-state map of hooks only; a leaf
\* whose every level is a hook has the empty map (an eighth between quarters has no
\* beam), and a leaf with at least one begin, continue or end has all its levels, the
\* hooks among them
C26_HooksCleared ==
    JustBeamed =>
        \A k \in GroupLeaves :
           LET beams == group.contents[k].beams
               levels == 1..NumBeams(group.contents[k])
           IN  /\ beams # <<>> => \E d \in DOMAIN beams : ~IsHook(beams[d])
               /\ (\A d \in levels : ~JoinedAt(k, d)) => beams = <<>>
               /\ (\E d \in levels : JoinedAt(k, d)) =>
                     /\ DOMAIN beams = levels
                     /\ \A d \in levels : IsHook(beams[d]) <=> ~JoinedAt(k, d)

\* C26 witness: an eighth, a quarter, an eighth and a 16th were beamed; the eighth
\* before the quarter had a hook only and has no beam, the 16th has its end and its hook
C26_Witness ==
    /\ JustBeamed
    /\ Len(group.contents) = 4
    /\ [k \in GroupLeaves |-> group.contents[k].duration.note_type] =
          <<"eighth", "quarter", "eighth", "16th">>
    /\ \A k \in GroupLeaves :
          group.contents[k].kind = "Note" /\ ~group.contents[k].is_grace
    /\ BeamMaps(group) = <<<<>>, <<>>, (1 :> "begin"), (1 :> "end" @@ 2 :> "forward hook")>>

-----------------------------------------------------------------------------
(* What the beam states of a level are read for, leaf after leaf *)

\* the state of leaf k at level d; "none" when it has no state there or does not exist
StateAt(k, d) ==
    IF k \in GroupLeaves /\ d \in DOMAIN group.contents[k].beams
    THEN group.contents[k].beams[d] ELSE "none"

\* C27: after render_contents_beaming, at every level d the states in leaf order form
\* balanced runs: a "begin" is followed on the next leaves by zero or more "continue"
\* and then an "end", "continue" and "end" occur only in a run that a "begin" opened at
\* that level, and a leaf with a state at a level d > 1 has a state at every level below d
C27_BalancedRuns ==
    JustBeamed =>
        \A k \in GroupLeaves : \A d \in BeamLevels :
           /\ StateAt(k, d) = "begin" => StateAt(k + 1, d) \in {"continue", "end"}
           /\ StateAt(k, d) = "continue" =>
                 /\ StateAt(k - 1, d) \in {"begin", "continue"}
                 /\ StateAt(k + 1, d) \in {"continue", "end"}
           /\ StateAt(k, d) = "end" => StateAt(k - 1, d) \in {"begin", "continue"}
           /\ (d > 1 /\ StateAt(k, d) # "none") =>
                 \A lower \in 1..(d - 1) : StateAt(k, lower) # "none"

\* C27 witness: two 16ths and two eighths were beamed into one run at level 1 with a
\* run of the two 16ths at level 2
C27_Witness ==
    /\ JustBeamed
    /\ Len(group.contents) = 4
    /\ [d \in 1..2 |-> [k \in GroupLeaves |-> StateAt(k, d)]] =
          << <<"begin", "continue", "continue", "end">>,
             <<"begin", "end", "none", "none">> >>

-----------------------------------------------------------------------------
(* What the open slots of the slur mapping are read for *)

\* the places of the mapping: an id and an index into its list of open slots
OpenPlaces(map) == {<<k, n>> \in (DOMAIN map) \X (1..MaxSlurNumber) : n <= Len(map[k])}

\* the open slots are numbers of the pool and no two places hold the same one
SlotsExclusive(map) ==
    \A p \in OpenPlaces(map) :
       /\ map[p[1]][p[2]] \in 1..MaxSlurNumber
       /\ \A q \in OpenPlaces(map) : map[p[1]][p[2]] = map[q[1]][q[2]] => p = q

\* C28: at every point of the walk of Part._validate_slur_numbers the slots that the
\* mapping holds for the open slurs are pairwise distinct integers in 1..6, and a stop
\* that is matched receives a slot that was assigned to a start with the same id
C28_SlotsExclusive ==
    [][/\ SlotsExclusive(input_to_output_numbers')
       /\ \A k \in DOMAIN input_to_output_numbers' :
             Len(input_to_output_numbers'[k]) \in 1..MaxSlurNumber
       /\ (StopWalked /\ last_event'.slur_id \in DOMAIN input_to_output_numbers) =>
             /\ last_event'.number \in Range(input_to_output_numbers[last_event'.slur_id])
             /\ last_event'.number \notin HeldSlots(input_to_output_numbers')
    ]_vars

\* C28 witness: start 7, start 2, start 7, stop 7: the ids 7 and 2 held the slots 1, 3
\* and 2, and the stop of 7 received the slot 1 that the first start of 7 was given
C28_Witness ==
    /\ last_event = [type |-> "stop", slur_id |-> 7, number |-> 1, warning |-> FALSE]
    /\ DOMAIN input_to_output_numbers = {2, 7}
    /\ input_to_output_numbers[2] = <<2>>
    /\ input_to_output_numbers[7] = <<3>>

-----------------------------------------------------------------------------
(* What the duration of a backup or forward is read for *)

\* C29: every backup and forward that Measure.render emits has a strictly positive
\* integer duration, also when the first voice is None and when a voice holds grace
\* notes only
C29_PositiveCursorMoves ==
    Rendered =>
        \A p \in 1..Len(out) :
           out[p].tag \in {"backup", "forward"} => out[p].dur \in Nat \ {0}

-----------------------------------------------------------------------------
(* What the bracket marks of a Tuplet are read for once it was added to or *)
(* deleted from                                                           *)

\* leaf k carries a tuplet start mark, a tuplet stop mark
HasStartMark(k) == group.contents[k].tuplet_bracket \in {"start", "both"}
HasStopMark(k) == group.contents[k].tuplet_bracket \in {"stop", "both"}

\* the ratio has just been set again on the contents of the Tuplet
JustRestamped ==
    /\ group.cls = "Tuplet"
    /\ queried.op \in {"min_denominator", "render"}

\* C30: after inserts, appends and deletes on a Tuplet and a min_denominator() or
\* render that sets the ratio again, the first leaf and no other carries a tuplet
\* start mark and the last leaf and no other carries a tuplet stop mark; no leaf keeps
\* a mark of an earlier stamping
C30_BracketMarksRestamped ==
    JustRestamped =>
        \A k \in GroupLeaves :
           /\ HasStartMark(k) <=> k = 1
           /\ HasStopMark(k) <=> k = Len(group.contents)

=============================================================================
